---------------------------- MODULE Spec2Model ----------------------------
(***************************************************************************)
(* Rocket-telemetry dashboards (Si-Taichi/mgbc-web).                       *)
(*                                                                         *)
(* The repository holds a flight simulator (ws_server.py, wss_server.py)   *)
(* that encodes readings as CSV lines, and several stand-alone dashboard   *)
(* scripts that decode the lines and aggregate them per board              *)
(* (unifiedDashboard.py, groundDashboard.py, additionals/*.py).            *)
(*                                                                         *)
(* Text is modelled as sequences of one-character strings, so that split,  *)
(* strip, upper, float() and the "%.2f" formatting are computed the way    *)
(* the Python code computes them.  Floating point numbers are modelled on  *)
(* a decimal grid of 10^-6 (an integer number of millionths): every number *)
(* the codec writes has at most six decimals.                              *)
(***************************************************************************)
EXTENDS Integers, Sequences, FiniteSets, TLC

(***************************************************************************)
(* Part 1.  Python text primitives                                         *)
(***************************************************************************)

Digits == <<"0", "1", "2", "3", "4", "5", "6", "7", "8", "9">>

LowerChars ==
  <<"a", "b", "c", "d", "e", "f", "g", "h", "i", "j", "k", "l", "m",
    "n", "o", "p", "q", "r", "s", "t", "u", "v", "w", "x", "y", "z">>

UpperChars ==
  <<"A", "B", "C", "D", "E", "F", "G", "H", "I", "J", "K", "L", "M",
    "N", "O", "P", "Q", "R", "S", "T", "U", "V", "W", "X", "Y", "Z">>

IsDigit(c) == \E i \in 1..10 : Digits[i] = c

DigitVal(c) == (CHOOSE i \in 1..10 : Digits[i] = c) - 1

IsSpace(c) == c \in {" ", "\t", "\n", "\r"}

\* str.lower() and str.upper(), character by character
LowerChar(c) ==
  IF \E k \in 1..26 : UpperChars[k] = c
    THEN LowerChars[CHOOSE k \in 1..26 : UpperChars[k] = c]
    ELSE c

UpperChar(c) ==
  IF \E k \in 1..26 : LowerChars[k] = c
    THEN UpperChars[CHOOSE k \in 1..26 : LowerChars[k] = c]
    ELSE c

lower(s) == [i \in 1..Len(s) |-> LowerChar(s[i])]

upper(s) == [i \in 1..Len(s) |-> UpperChar(s[i])]

\* str.strip(): leading and trailing whitespace removed
RECURSIVE lstrip(_)
lstrip(s) ==
  IF Len(s) > 0 /\ IsSpace(Head(s)) THEN lstrip(Tail(s)) ELSE s

RECURSIVE rstrip(_)
rstrip(s) ==
  IF Len(s) > 0 /\ IsSpace(s[Len(s)])
    THEN rstrip(SubSeq(s, 1, Len(s) - 1))
    ELSE s

strip(s) == rstrip(lstrip(s))

\* str.split(","): always at least one part; "" splits into [""].  Part k
\* lies between the (k-1)-th and the k-th comma.
CommaAt(s, k) ==
  LET commas == {i \in 1..Len(s) : s[i] = ","}
  IN  IF k = 0 THEN 0
      ELSE IF k > Cardinality(commas) THEN Len(s) + 1
      ELSE CHOOSE i \in commas : Cardinality({j \in commas : j <= i}) = k

split(s) ==
  LET n == Cardinality({i \in 1..Len(s) : s[i] = ","}) + 1
  IN  [k \in 1..n |-> SubSeq(s, CommaAt(s, k - 1) + 1, CommaAt(s, k) - 1)]

\* ",".join(parts)
RECURSIVE join(_)
join(parts) ==
  IF Len(parts) = 0 THEN <<>>
  ELSE IF Len(parts) = 1 THEN parts[1]
  ELSE parts[1] \o <<",">> \o join(Tail(parts))

\* sub in s
Contains(sub, s) ==
  \E i \in 0..(Len(s) - Len(sub)) : SubSeq(s, i + 1, i + Len(sub)) = sub

\* s.startswith(pre)
startswith(s, pre) ==
  Len(s) >= Len(pre) /\ SubSeq(s, 1, Len(pre)) = pre

(***************************************************************************)
(* Numbers.  A float is an integer count of millionths.                    *)
(***************************************************************************)

Micro == 1000000

RECURSIVE Pow10(_)
Pow10(n) == IF n = 0 THEN 1 ELSE 10 * Pow10(n - 1)

Abs(x) == IF x < 0 THEN -x ELSE x

\* the decimal digits of a natural number
RECURSIVE NatStr(_)
NatStr(n) ==
  IF n < 10 THEN <<Digits[n + 1]>>
  ELSE NatStr(n \div 10) \o <<Digits[(n % 10) + 1]>>

\* n written with exactly w digits (leading zeros)
RECURSIVE PadStr(_, _)
PadStr(n, w) ==
  IF w = 0 THEN <<>>
  ELSE PadStr(n \div 10, w - 1) \o <<Digits[(n % 10) + 1]>>

\* the value of a string of digits
RECURSIVE DigitsVal(_)
DigitsVal(s) ==
  IF Len(s) = 0 THEN 0
  ELSE 10 * DigitsVal(SubSeq(s, 1, Len(s) - 1)) + DigitVal(s[Len(s)])

AllDigits(s) == \A i \in 1..Len(s) : IsDigit(s[i])

\* round a non-negative quantity a/unit to the nearest integer, ties to even.
\* (Python rounds the binary value of the float; the two agree on the values
\* of this model, whose only tie, 0.125, is exact in binary.)
RoundHalfEven(a, unit) ==
  LET q == a \div unit
      r == a % unit
  IN  IF 2 * r > unit THEN q + 1
      ELSE IF 2 * r < unit THEN q
      ELSE IF q % 2 = 0 THEN q ELSE q + 1


\* float(s): optional surrounding whitespace, optional sign, digits with an
\* optional decimal point.  Anything else raises ValueError (ok = FALSE).
\* (Exponents, "inf" and "nan", which float() also accepts, do not occur in
\* the lines of this model.)  Decimals beyond the sixth are below the grid.
pyfloat(s) ==
  LET t    == strip(s)
      neg  == Len(t) > 0 /\ t[1] = "-"
      body == IF Len(t) > 0 /\ t[1] \in {"-", "+"} THEN Tail(t) ELSE t
      dots == {i \in 1..Len(body) : body[i] = "."}
      ip   == IF dots = {} THEN body
              ELSE SubSeq(body, 1, (CHOOSE i \in dots : TRUE) - 1)
      fp   == IF dots = {} THEN <<>>
              ELSE SubSeq(body, (CHOOSE i \in dots : TRUE) + 1, Len(body))
      fp6  == IF Len(fp) > 6 THEN SubSeq(fp, 1, 6) ELSE fp
      good == /\ Cardinality(dots) <= 1
              /\ AllDigits(ip) /\ AllDigits(fp)
              /\ Len(ip) + Len(fp) > 0
      mag  == DigitsVal(ip) * Micro + DigitsVal(fp6) * Pow10(6 - Len(fp6))
  IN  IF good THEN [ok |-> TRUE, val |-> IF neg THEN -mag ELSE mag]
      ELSE [ok |-> FALSE, val |-> 0]

\* f"{v:.<prec>f}": v rounded to prec decimals, at least one integer digit,
\* exactly prec decimals, "-" kept for a negative v (also when it rounds to 0)
format_f(v, prec) ==
  LET q == RoundHalfEven(Abs(v), Pow10(6 - prec))
  IN  (IF v < 0 THEN <<"-">> ELSE <<>>)
        \o NatStr(q \div Pow10(prec)) \o <<".">> \o PadStr(q % Pow10(prec), prec)

(***************************************************************************)
(* Part 2.  Telemetry line codec                                           *)
(***************************************************************************)

\* variant: the latitude written with two decimals
create_csv_data_lat2(data) ==
  join(<< format_f(data.accel_x, 2), format_f(data.accel_y, 2),
          format_f(data.accel_z, 2), format_f(data.lat, 2),
          format_f(data.lon, 6), format_f(data.temp, 2),
          format_f(data.pressure, 2), format_f(data.humidity, 2),
          format_f(data.alt, 2), data.phase >>)

\* wss_server.py: the 10-field line
create_csv_data(data) ==
  join(<< format_f(data.accel_x, 2), format_f(data.accel_y, 2),
          format_f(data.accel_z, 2), format_f(data.lat, 6),
          format_f(data.lon, 6), format_f(data.temp, 2),
          format_f(data.pressure, 2), format_f(data.humidity, 2),
          format_f(data.alt, 2), data.phase >>)

\* ws_server.py: the 11-field line, with speed before alt
create_csv_data_speed(data) ==
  join(<< format_f(data.accel_x, 2), format_f(data.accel_y, 2),
          format_f(data.accel_z, 2), format_f(data.lat, 6),
          format_f(data.lon, 6), format_f(data.temp, 2),
          format_f(data.pressure, 2), format_f(data.humidity, 2),
          format_f(data.speed, 2), format_f(data.alt, 2), data.phase >>)

\* What a parser returns: a dict (ok) or None, and what it printed on the way.
Parsed(d) == [ok |-> TRUE, printed |-> "", data |-> d]

None(msg) == [ok |-> FALSE, printed |-> msg, data |-> <<>>]

accel == <<"a", "c", "c", "e", "l">>

accel_x == <<"a", "c", "c", "e", "l", "_", "x">>

\* float() of parts[1..n]: TRUE when none raises
FloatsOk(parts, n) == \A i \in 1..n : pyfloat(parts[i]).ok

\* the dict the 10-field parsers build from parts[0..9] (1..10 here)
Reading10(parts, phase) ==
  [accel_x  |-> pyfloat(parts[1]).val, accel_y  |-> pyfloat(parts[2]).val,
   accel_z  |-> pyfloat(parts[3]).val, lat      |-> pyfloat(parts[4]).val,
   lon      |-> pyfloat(parts[5]).val, temp     |-> pyfloat(parts[6]).val,
   pressure |-> pyfloat(parts[7]).val, humidity |-> pyfloat(parts[8]).val,
   alt      |-> pyfloat(parts[9]).val, phase    |-> phase]

\* unifiedDashboard.py parse_csv_string
parse_csv_string(csv_string) ==
  LET parts == split(strip(csv_string))
  IN  IF startswith(lower(parts[1]), accel) THEN None("")
      ELSE IF Len(parts) < 10 THEN None("")
      ELSE IF ~FloatsOk(parts, 9) THEN None("")
      ELSE Parsed(Reading10(parts, strip(parts[10])))

\* additionals/deployDashboard.py parse_csv_string
parse_csv_string_deploy(csv_string) ==
  LET parts == split(strip(csv_string))
  IN  IF lower(parts[1]) = accel_x THEN None("")
      ELSE IF Len(parts) # 10 THEN None("")
      ELSE IF ~FloatsOk(parts, 9) THEN None("Parse error")
      ELSE Parsed(Reading10(parts, upper(strip(parts[10]))))

\* additionals/deploymentDashboard.py parse_csv_string: of exactly 10
\* parts it reads parts[8], parts[9] and parts[10]; the last is the
\* IndexError its except clause catches
parse_csv_string_deployment(csv_string) ==
  LET parts == split(strip(csv_string))
  IN  IF lower(parts[1]) = accel_x THEN None("")
      ELSE IF Len(parts) # 10 THEN None("")
      ELSE IF ~FloatsOk(parts, 7) THEN None("Parse error")
      ELSE IF ~(pyfloat(parts[9]).ok /\ pyfloat(parts[10]).ok)
        THEN None("Parse error")
      ELSE IF Len(parts) < 11 THEN None("Parse error")
      ELSE Parsed([accel_x  |-> pyfloat(parts[1]).val,
                   accel_y  |-> pyfloat(parts[2]).val,
                   accel_z  |-> pyfloat(parts[3]).val,
                   lat      |-> pyfloat(parts[4]).val,
                   lon      |-> pyfloat(parts[5]).val,
                   temp     |-> pyfloat(parts[6]).val,
                   pressure |-> pyfloat(parts[7]).val,
                   humidity |-> pyfloat(parts[9]).val,
                   alt      |-> pyfloat(parts[10]).val,
                   phase    |-> upper(strip(parts[11]))])

\* variant: no test of the header token
parse_csv_string_ground_noheader(csv_string) ==
  LET parts == split(strip(csv_string))
  IN  IF Len(parts) # 11 THEN None("Invalid CSV format")
      ELSE IF ~FloatsOk(parts, 10) THEN None("Value conversion error")
      ELSE Parsed([x        |-> pyfloat(parts[1]).val,
                   y        |-> pyfloat(parts[2]).val,
                   z        |-> pyfloat(parts[3]).val,
                   lat      |-> pyfloat(parts[4]).val,
                   lon      |-> pyfloat(parts[5]).val,
                   temp     |-> pyfloat(parts[6]).val,
                   pressure |-> pyfloat(parts[7]).val,
                   humidity |-> pyfloat(parts[8]).val,
                   speed    |-> pyfloat(parts[9]).val,
                   alt      |-> pyfloat(parts[10]).val,
                   phase    |-> strip(parts[11])])

\* groundDashboard.py parse_csv_string: 11 fields, speed before alt.  The
\* dict's keys "LIS331DLH axis x", "lc86g lat", ... are written x, lat, ...
\* and its one-element lists as their element.
parse_csv_string_ground(csv_string) ==
  LET parts == split(strip(csv_string))
  IN  IF lower(parts[1]) = accel_x THEN None("")
      ELSE IF Len(parts) # 11 THEN None("Invalid CSV format")
      ELSE IF ~FloatsOk(parts, 10) THEN None("Value conversion error")
      ELSE Parsed([x        |-> pyfloat(parts[1]).val,
                   y        |-> pyfloat(parts[2]).val,
                   z        |-> pyfloat(parts[3]).val,
                   lat      |-> pyfloat(parts[4]).val,
                   lon      |-> pyfloat(parts[5]).val,
                   temp     |-> pyfloat(parts[6]).val,
                   pressure |-> pyfloat(parts[7]).val,
                   humidity |-> pyfloat(parts[8]).val,
                   speed    |-> pyfloat(parts[9]).val,
                   alt      |-> pyfloat(parts[10]).val,
                   phase    |-> strip(parts[11])])

(***************************************************************************)
(* Flight phases, as the text the simulator writes and the stores keep     *)
(***************************************************************************)

GROUND == <<"G", "R", "O", "U", "N", "D">>

RISING == <<"R", "I", "S", "I", "N", "G">>

COASTING == <<"C", "O", "A", "S", "T", "I", "N", "G">>

MAIN_DEPLOY == <<"M", "A", "I", "N", " ", "D", "E", "P", "L", "O", "Y">>

SECOND_DEPLOY ==
  <<"S", "E", "C", "O", "N", "D", " ", "D", "E", "P", "L", "O", "Y">>

LANDED == <<"L", "A", "N", "D", "E", "D">>

DESCENT == <<"D", "E", "S", "C", "E", "N", "T">>

MAIN == <<"M", "A", "I", "N">>

SECOND == <<"S", "E", "C", "O", "N", "D">>

DEPLOY == <<"D", "E", "P", "L", "O", "Y">>

(***************************************************************************)
(* State                                                                   *)
(***************************************************************************)

VARIABLES
  \* codec round trip: a reading, its line, what the consumer decoded
  codec_pc, codec_in, codec_line, codec_out,
  \* flight simulator (wss_server.py / ws_server.py)
  device_states,   \* SampleDataGenerator.device_states
  elapsed,         \* the sampler's elapsed time, in half seconds
  dev_i,           \* the sampler's loop index i
  device_data,     \* per device, the phase of the line published last
  last_gen,        \* the last call of generate_rocket_flight_data
  gen_state,       \* one device's state, position and humidity included
  gen_elapsed,     \* the elapsed time of the last call for that device
  gen_calls,       \* how many readings were generated for it
  gen_reading,     \* the reading the last call returned
  \* dashboards (unifiedDashboard.py, groundDashboard.py, deployDashboard.py)
  prog,               \* which dashboard script is running
  board_list,         \* board_id -> the board's series and deploy flags
  deployment_history, \* board_id -> main_deployed, second_deployed
  board_statuses,     \* deployDashboard: board_id -> status of the last poll
  new_statuses,       \* deployDashboard: the statuses of the poll under way
  all_board,          \* groundDashboard: the readings of the poll under way
  prediction_memory,  \* board_id -> predicted apogee
  msg_count,          \* lines read so far
  board_round_robin,  \* unifiedDashboard: index of the next board
  lock,               \* SharedDataStore.lock: "free" or its holder
  f_pc,               \* where the fetcher thread stands
  line,               \* the line the fetcher read last
  parsed,             \* what parse_csv_string returned for it
  board_id,           \* the board the fetcher is updating
  display_phase,      \* the fetcher's local display_phase
  poll_i,             \* index of the fetcher's loop over a poll's boards
  view,               \* what the callback under way has read
  \* predictions and scores (unifiedDashboard.py callbacks)
  pred_call,          \* the arguments of the last save_prediction_ground
  status_rows,        \* bid -> the status row ground_update_charts built
  \* the prediction form of the ground page (unifiedDashboard.py layout)
  btn_n_clicks,       \* save-prediction-btn-ground.n_clicks, None as 0
  input_value,        \* predicted-apogee-input-ground.value, empty as 0
  select_value,       \* prediction-board-select-ground.value
  triggered,          \* the property whose change fired the last callback
  \* adapters that attribute lines by a counter, and their source
  retry_count,        \* ws_listener: retry_count
  wait_time,          \* ws_listener: wait_time of the last sleep
  message_count,      \* ws_listener: messages of the connection
  error_count,        \* data_fetcher_serial: error_count
  skip_log,           \* data_fetcher_serial: what the last line printed
  src_sent,           \* lines the source has emitted, in board order
  src_lost,           \* how many of them never reached the adapter
  src_rejected,       \* how many of them the adapter's decoder rejected
  failures,           \* failures since the last successful connection
  invalid_uri,        \* WSS_ADDRESS is no valid URI: connect raises
  \* the REST server (ws_server.py)
  data_lock,          \* data_lock: "free" or its holder
  gen_pc,             \* where run_data_generator stands
  device_id,          \* its loop index
  counter,            \* its counter: the number of the tick
  api_device_data,    \* the global device_data: key -> tick of its line
  response            \* the last response of GET /gcs/all

codecVars == <<codec_pc, codec_in, codec_line, codec_out>>

simVars == <<device_states, elapsed, dev_i, device_data, last_gen>>

readingVars == <<gen_state, gen_elapsed, gen_calls, gen_reading>>

storeVars == <<board_list, deployment_history>>

statusVars == <<board_statuses, new_statuses>>

fetcherVars ==
  <<msg_count, board_round_robin, f_pc, line, parsed, board_id,
    display_phase, poll_i, all_board>>

fetcherVars_but_pc ==
  <<msg_count, board_round_robin, line, parsed, board_id, display_phase,
    poll_i, all_board>>

aggVars ==
  <<prog, storeVars, statusVars, prediction_memory, lock, fetcherVars, view>>

scoreVars == <<pred_call, status_rows>>

formVars == <<btn_n_clicks, input_value, select_value, triggered>>

sourceVars == <<src_sent, src_lost, src_rejected>>

listenerVars ==
  <<retry_count, wait_time, message_count, failures, invalid_uri>>

serialVars == <<error_count, skip_log>>

adapterVars == <<sourceVars, listenerVars, serialVars>>

serverVars ==
  <<data_lock, gen_pc, device_id, counter, api_device_data, response>>

extVars == <<formVars, adapterVars, serverVars>>

nonAggVars == <<simVars, readingVars, codecVars, scoreVars, extVars>>

vars == <<codecVars, simVars, readingVars, aggVars, scoreVars, extVars>>

(***************************************************************************)
(* Part 3.  Flight simulator: SampleDataGenerator                          *)
(*                                                                         *)
(* Time is counted in half seconds (the sampler's tick is 0.5 s) and       *)
(* altitude in fortieths of a metre, which makes every altitude formula of *)
(* the code an integer.  launch_time, max_altitude_reached, prev_alt and   *)
(* prev_time are written by the code and never read; they are left out.    *)
(***************************************************************************)

NumDevices == 1          \* NUM_BOARDS of the simulator run

MaxElapsed == 125        \* the sampler is followed for 62.5 s

MaxStep == 1             \* elapsed time advances by 0..MaxStep half seconds,

BigStep == 24            \* or jumps by BigStep half seconds

RandMax == 2             \* a random draw is one of RandMax + 1 levels

Devices == 0..(NumDevices - 1)

Offsets == {0, 15}       \* time_offset: random.uniform(0, 15) seconds

\* variant: a launch site 200 m up
BaseAlts_high == {0, 8000}

BaseAlts == {0, 2000}    \* alt: random.uniform(0, 50) metres

NoneTime == -1           \* landing_time: None

T_RISING == 20           \* flight_time < 10

\* variant: coasting lasts one second longer
T_COASTING_late == T_RISING + 42

T_COASTING == 60         \* flight_time < 30

T_MAIN == 70             \* flight_time < 35

\* variant: the second parachute opens 100 m higher
ALT_SECOND_high == 500 * T_RISING

ALT_SECOND == 6000       \* alt <= 150

\* variant: landing accepted anywhere below apogee
LAND_MARGIN_wide == 7 * ALT_SECOND

LAND_MARGIN == 400       \* alt <= state['alt'] + 10

\* variant: landing accepted after 350 s of descent only
LAND_DELAY_long == 10 * T_MAIN

LAND_DELAY == 20         \* t_descent > 10

\* random.uniform(a, b), the draw r in 0..RandMax
uniform(a, b, r) == a + (r * (b - a)) \div RandMax

Max(a, b) == IF a >= b THEN a ELSE b

Min(a, b) == IF a <= b THEN a ELSE b

\* SampleDataGenerator.__init__: one device's state
InitDeviceState(alt, time_offset) ==
  [alt |-> alt, time_offset |-> time_offset,
   main_deploy_triggered |-> FALSE, second_deploy_triggered |-> FALSE,
   has_launched |-> FALSE, has_landed |-> FALSE, landing_time |-> NoneTime]

\* the descent branch: second_deploy_triggered after the tick
second_deploy(state, alt) ==
  state.second_deploy_triggered \/ alt <= ALT_SECOND

\* variant: SECOND DEPLOY reported on the trigger tick only
descent_phase_once(state, alt) ==
  IF alt <= ALT_SECOND /\ ~state.second_deploy_triggered
    THEN SECOND_DEPLOY
    ELSE MAIN_DEPLOY

\* the descent branch: the phase of the tick
descent_phase(state, alt) ==
  IF alt <= ALT_SECOND /\ ~state.second_deploy_triggered THEN SECOND_DEPLOY
  ELSE IF state.second_deploy_triggered THEN SECOND_DEPLOY
  ELSE MAIN_DEPLOY

\* generate_rocket_flight_data, the phase logic.  Returns the device's new
\* state, the phase of the reading and the model altitude alt (before the
\* output noise).
generate_rocket_flight_data(state, elapsed_time, r) ==
  LET flight_time == elapsed_time - state.time_offset
      max_alt     == state.alt + 35200
  IN
  IF flight_time < 0 THEN
    [state |-> state, phase |-> GROUND,
     alt |-> state.alt + uniform(-40, 40, r)]
  ELSE IF flight_time < T_RISING /\ ~state.has_landed THEN
    [state |-> [state EXCEPT !.has_launched = TRUE], phase |-> RISING,
     alt |-> state.alt + 50 * flight_time * flight_time]
  ELSE IF flight_time < T_COASTING /\ ~state.has_landed THEN
    LET t_ascent == flight_time - T_RISING
    IN  [state |-> state, phase |-> COASTING,
         alt |-> state.alt + 20000 + 500 * t_ascent - 3 * t_ascent * t_ascent]
  ELSE IF flight_time < T_MAIN /\ ~state.has_landed THEN
    LET t_apogee == flight_time - T_COASTING
    IN  [state |-> [state EXCEPT !.main_deploy_triggered = TRUE],
         phase |-> MAIN_DEPLOY,
         alt |-> max_alt - 20 * t_apogee * t_apogee]
  ELSE IF ~state.has_landed THEN
    LET t_descent == flight_time - T_MAIN
        alt       == Max(state.alt, max_alt - 2000 - 30 * t_descent * t_descent)
        second    == second_deploy(state, alt)
        lands     == alt <= state.alt + LAND_MARGIN /\ t_descent > LAND_DELAY
    IN  [state |-> [state EXCEPT
                      !.second_deploy_triggered = second,
                      !.has_landed = lands,
                      !.landing_time = IF lands THEN elapsed_time ELSE @],
         phase |-> descent_phase(state, alt),
         alt |-> alt]
  ELSE
    [state |-> state, phase |-> LANDED,
     alt |-> state.alt + uniform(0, 80, r)]

NoCall ==
  [called |-> FALSE, dev |-> 0, elapsed_time |-> 0, flight_time |-> 0,
   landed_before |-> FALSE, phase |-> <<>>, alt |-> 0]

SimInit ==
  /\ device_states \in
       [Devices -> {InitDeviceState(a, o) : a \in BaseAlts, o \in Offsets}]
  /\ elapsed = 0
  /\ dev_i = 0
  /\ device_data = [d \in Devices |-> <<>>]
  /\ last_gen = NoCall

SimIdle ==
  /\ device_states = [d \in Devices |-> InitDeviceState(0, 0)]
  /\ elapsed = 0
  /\ dev_i = 0
  /\ device_data = [d \in Devices |-> <<>>]
  /\ last_gen = NoCall

\* sampler: elapsed = time.time() - start, at the top of the while loop
sampler_tick ==
  /\ dev_i = NumDevices
  /\ \E step \in (0..MaxStep) \cup {BigStep} :
       /\ elapsed + step <= MaxElapsed
       /\ elapsed' = elapsed + step
  /\ dev_i' = 0
  /\ UNCHANGED <<device_states, device_data, last_gen>>

\* sampler: elapsed at the top of the while loop when every pass takes the
\* 0.5 s of time.sleep(0.5)
sampler_tick_half ==
  /\ dev_i = NumDevices
  /\ elapsed + 1 <= MaxElapsed
  /\ elapsed' = elapsed + 1
  /\ dev_i' = 0
  /\ UNCHANGED <<device_states, device_data, last_gen>>

\* sampler: one round of the for loop: generate, encode, publish
sampler_generate ==
  /\ dev_i < NumDevices
  /\ \E r \in 0..RandMax :
       LET g == generate_rocket_flight_data(device_states[dev_i], elapsed, r)
       IN  /\ device_states' = [device_states EXCEPT ![dev_i] = g.state]
           /\ device_data' = [device_data EXCEPT ![dev_i] = g.phase]
           /\ last_gen' =
                [called |-> TRUE, dev |-> dev_i, elapsed_time |-> elapsed,
                 flight_time |-> elapsed - device_states[dev_i].time_offset,
                 landed_before |-> device_states[dev_i].has_landed,
                 phase |-> g.phase, alt |-> g.alt]
  /\ dev_i' = dev_i + 1
  /\ UNCHANGED elapsed

(***************************************************************************)
(* Part 3b.  The reading generate_rocket_flight_data returns               *)
(*                                                                         *)
(* One device is followed through the sampler's calls: the phase logic     *)
(* above, then the position drift, then the returned dictionary.  lat, lon *)
(* are in millionths of a degree, humidity in millionths of a percent,     *)
(* altitude in fortieths of a metre.  temp, pressure and the accelerations *)
(* are computed by the code without being clamped or read back; they are   *)
(* left out.  A random draw is one end of its range.                       *)
(***************************************************************************)

MaxCalls == 6            \* readings generated for the device

Draws == {0, RandMax}    \* random.uniform at its ends

ReadingSteps == {0, BigStep}

\* SampleDataGenerator.clamp_lat_lon
clamp_lat_lon(lat, lon) ==
  [lat |-> Max(Min(lat, 90 * Micro), -90 * Micro),
   lon |-> ((lon + 180 * Micro) % (360 * Micro)) - 180 * Micro]

\* variant: the altitude of the reading is not clamped
reading_alt_raw(alt, noise) == alt + noise

\* 'alt': max(0, alt + random.uniform(-5, 5))
reading_alt(alt, noise) == Max(0, alt + noise)

\* 'humidity': max(0, min(100, state['humidity'] + random.uniform(-2, 2)))
reading_humidity(humidity, noise) ==
  Max(0, Min(100 * Micro, humidity + noise))

\* __init__: the device's state with its position and humidity
InitGenState(alt, time_offset, lat, lon, humidity) ==
  [alt |-> alt, time_offset |-> time_offset,
   main_deploy_triggered |-> FALSE, second_deploy_triggered |-> FALSE,
   has_launched |-> FALSE, has_landed |-> FALSE, landing_time |-> NoneTime,
   lat |-> lat, lon |-> lon, humidity |-> humidity]

\* generate_rocket_flight_data, whole: the device's new state and the
\* returned reading
generate_reading(state, elapsed_time, r, r_lat, r_lon, r_hum, r_alt) ==
  LET g     == generate_rocket_flight_data(state, elapsed_time, r)
      drift == g.phase \notin {GROUND, LANDED}
      pos   == IF drift
                 THEN clamp_lat_lon(
                        g.state.lat + uniform(-1000, 1000, r_lat),
                        g.state.lon + uniform(-1000, 1000, r_lon))
                 ELSE [lat |-> g.state.lat, lon |-> g.state.lon]
  IN  [state |-> [g.state EXCEPT !.lat = pos.lat, !.lon = pos.lon],
       reading |->
         [lat |-> pos.lat, lon |-> pos.lon,
          humidity |->
            reading_humidity(state.humidity,
                             uniform(-2 * Micro, 2 * Micro, r_hum)),
          alt |-> reading_alt(g.alt, uniform(-200, 200, r_alt)),
          model_alt |-> g.alt,
          phase |-> g.phase]]

NoGenReading ==
  [lat |-> 0, lon |-> 0, humidity |-> 0, alt |-> 0, model_alt |-> 0,
   phase |-> <<>>]

ReadingInit ==
  /\ gen_state \in
       {InitGenState(a, o,
                     30 * Micro + uniform(-10000, 10000, r1),
                     90 * Micro + uniform(-10000, 10000, r2),
                     uniform(40 * Micro, 60 * Micro, r3)) :
          a \in BaseAlts, o \in Offsets,
          r1 \in {RandMax}, r2 \in {0}, r3 \in Draws}
  /\ gen_elapsed = 0
  /\ gen_calls = 0
  /\ gen_reading = NoGenReading

ReadingIdle ==
  /\ gen_state = InitGenState(0, 0, 30 * Micro, 90 * Micro, 50 * Micro)
  /\ gen_elapsed = 0
  /\ gen_calls = 0
  /\ gen_reading = NoGenReading

\* sampler: one pass of the loop for the device: elapsed, then generate
reading_generate ==
  /\ gen_calls < MaxCalls
  /\ \E step \in ReadingSteps :
       /\ gen_elapsed + step <= MaxElapsed
       /\ gen_elapsed' = gen_elapsed + step
       /\ \E r \in Draws, r_lat \in Draws, r_lon \in Draws,
             r_hum \in Draws, r_alt \in Draws :
            \E g \in {generate_reading(gen_state, gen_elapsed + step,
                                       r, r_lat, r_lon, r_hum, r_alt)} :
              /\ gen_state' = g.state
              /\ gen_reading' = g.reading
  /\ gen_calls' = gen_calls + 1

(***************************************************************************)
(* Part 4.  Codec round trip: encode a reading, decode the line            *)
(***************************************************************************)

NoReading ==
  [accel_x |-> 0, accel_y |-> 0, accel_z |-> 0, lat |-> 0, lon |-> 0,
   temp |-> 0, pressure |-> 0, humidity |-> 0, alt |-> 0, phase |-> <<>>]

\* phases that are no upper-case comma-free token
rising_lc == <<"r", "i", "s", "i", "n", "g">>

A_comma_B == <<"A", ",", "B">>

CodecPhases == {GROUND, MAIN_DEPLOY, LANDED, rising_lc, A_comma_B}

\* 0.12, -0.05 and 0.125 (not rounded to two decimals)
CodecAccels == {120000, -50000, 125000}

CodecLats == {30001234, -30001234}

CodecHumidities == {55300000, 100000000}

\* 12.40, 0.00 and 1234.567 (not rounded to two decimals)
CodecAlts == {12400000, 0, 1234567000}

CodecReadings ==
  {[accel_x |-> ax, accel_y |-> -50000, accel_z |-> 9810000,
    lat |-> la, lon |-> 90002345, temp |-> 24500000,
    pressure |-> 1013250000, humidity |-> hu, alt |-> al, phase |-> ph] :
     ax \in CodecAccels, la \in CodecLats, hu \in CodecHumidities,
     al \in CodecAlts, ph \in CodecPhases}

CodecInit ==
  /\ codec_pc = "reading"
  /\ codec_in \in CodecReadings
  /\ codec_line = <<>>
  /\ codec_out = None("")

CodecIdle ==
  /\ codec_pc = "idle"
  /\ codec_in = NoReading
  /\ codec_line = <<>>
  /\ codec_out = None("")

\* the producer: csv_msg = generator.create_csv_data(data)
Encode ==
  /\ codec_pc = "reading"
  /\ codec_line' = create_csv_data(codec_in)
  /\ codec_pc' = "line"
  /\ UNCHANGED <<codec_in, codec_out>>

\* the consumer of unifiedDashboard.py
Decode ==
  /\ codec_pc = "line"
  /\ codec_out' = parse_csv_string(codec_line)
  /\ codec_pc' = "decoded"
  /\ UNCHANGED <<codec_in, codec_line>>

\* the consumer of additionals/deployDashboard.py
DecodeDeploy ==
  /\ codec_pc = "line"
  /\ codec_out' = parse_csv_string_deploy(codec_line)
  /\ codec_pc' = "decoded_deploy"
  /\ UNCHANGED <<codec_in, codec_line>>

\* the consumer of additionals/deploymentDashboard.py
DecodeDeployment ==
  /\ codec_pc = "line"
  /\ codec_out' = parse_csv_string_deployment(codec_line)
  /\ codec_pc' = "decoded_deployment"
  /\ UNCHANGED <<codec_in, codec_line>>

(***************************************************************************)
(* Part 5.  The dashboards: lines in, board state out                      *)
(***************************************************************************)

NumBoards == 2           \* NUM_BOARDS

MaxMsgs == 3             \* a run is followed for MaxMsgs lines

\* config.py MAX_DATA_POINTS is 10000 and no script reads it; a run of
\* MaxMsgs lines is measured against a cap it can exceed
MAX_DATA_POINTS == 1

\* str(i) of a board index
str(i) == Digits[i + 1]

BoardIds == {str(i) : i \in 0..(NumBoards - 1)}

\* d[k] = v on a dict
dict_set(d, k, v) ==
  [j \in (DOMAIN d) \cup {k} |-> IF j = k THEN v ELSE d[j]]

\* list[-1]
Last(s) == s[Len(s)]

\* --- the lines a serial port or a poll can deliver ----------------------

second_deploy_lc ==
  <<" ", "s", "e", "c", "o", "n", "d", " ", "d", "e", "p", "l", "o", "y">>

MAIN_SECOND_DEPLOY == MAIN \o <<" ">> \o SECOND_DEPLOY

Accel_X == <<"A", "c", "c", "e", "l", "_", "X">>

abc == <<"a", "b", "c">>

\* the header row of the canonical schema
HeaderFields ==
  << accel_x,
     <<"a", "c", "c", "e", "l", "_", "y">>,
     <<"a", "c", "c", "e", "l", "_", "z">>,
     <<"l", "a", "t">>, <<"l", "o", "n">>, <<"t", "e", "m", "p">>,
     <<"p", "r", "e", "s", "s", "u", "r", "e">>,
     <<"h", "u", "m", "i", "d", "i", "t", "y">>,
     <<"a", "l", "t">>, <<"p", "h", "a", "s", "e">> >>

\* a reading of the simulator: alt in millionths of a metre
Reading(alt, phase) ==
  [accel_x |-> 1500000, accel_y |-> -500000, accel_z |-> 9810000,
   lat |-> 30001234, lon |-> 90002345, temp |-> 24500000,
   pressure |-> 1013250000, humidity |-> 55300000, speed |-> 3100000,
   alt |-> alt, phase |-> phase]

\* a line with its field n replaced
with_field(csv, n, field) ==
  join([split(csv) EXCEPT ![n] = field])

\* 10-field lines, as wss_server.py writes them
L_rising == create_csv_data(Reading(12400000, RISING))

L_main == create_csv_data(Reading(500000000, MAIN_DEPLOY))

L_second == create_csv_data(Reading(140000000, second_deploy_lc))

L_both == create_csv_data(Reading(140000000, MAIN_SECOND_DEPLOY))

\* 11-field lines, as ws_server.py writes them
G_rising == create_csv_data_speed(Reading(12400000, RISING))

G_main == create_csv_data_speed(Reading(500000000, MAIN_DEPLOY))

G_second == create_csv_data_speed(Reading(140000000, second_deploy_lc))

\* a reading whose longitude is 190 degrees
FarReading == [Reading(12400000, RISING) EXCEPT !.lon = 190 * Micro]

L_far == create_csv_data(FarReading)

G_far == create_csv_data_speed(FarReading)

\* a 9-field line: the 10-field line without its altitude
L_nine == join(SubSeq(split(L_rising), 1, 8) \o <<RISING>>)

\* header rows: the column names, and a header token before valid fields
L_header == join(HeaderFields)

L_header_num == with_field(L_rising, 1, Accel_X)

G_header_num == with_field(G_rising, 1, Accel_X)

\* a field that is no number
L_bad == with_field(L_rising, 2, abc)

G_bad == with_field(G_rising, 2, abc)

\* the empty line the server holds for a device before its first publish
L_empty == <<>>

UnifiedLines ==
  {L_rising, L_main, L_second, L_both, L_header, L_header_num, L_nine,
   G_rising, L_bad, L_far}

GroundLines ==
  {G_rising, G_main, G_second, L_header, G_header_num, L_rising, G_bad,
   L_empty, G_far}

DeployLines ==
  {L_rising, L_main, L_second, L_both, L_header, L_nine, G_rising, L_bad,
   L_empty}

\* parse_csv_string of each script, tabulated over the lines it can receive
parsed_unified == [l \in UnifiedLines |-> parse_csv_string(l)]

parsed_ground == [l \in GroundLines |-> parse_csv_string_ground(l)]

parsed_deploy == [l \in DeployLines |-> parse_csv_string_deploy(l)]

\* --- the board store -----------------------------------------------------

\* unifiedDashboard.py SharedDataStore.init_board_data
init_board_data ==
  [x |-> <<>>, y |-> <<>>, z |-> <<>>, lat |-> <<>>, lon |-> <<>>,
   Tempurature |-> <<>>, Pressure |-> <<>>, Humidity |-> <<>>,
   alt |-> <<>>, phase |-> <<>>, time |-> <<>>,
   main_deploy |-> FALSE, second_deploy |-> FALSE]

\* groundDashboard.py init_board_data: with a speed series
init_board_data_ground ==
  [x |-> <<>>, y |-> <<>>, z |-> <<>>, lat |-> <<>>, lon |-> <<>>,
   Tempurature |-> <<>>, Pressure |-> <<>>, Humidity |-> <<>>,
   speed |-> <<>>, alt |-> <<>>, phase |-> <<>>, time |-> <<>>,
   main_deploy |-> FALSE, second_deploy |-> FALSE]

NoHistory == [main_deployed |-> FALSE, second_deployed |-> FALSE]

\* "MAIN" in phase and "DEPLOY" in phase
IsMainDeploy(phase) == Contains(MAIN, phase) /\ Contains(DEPLOY, phase)

\* "SECOND" in phase and "DEPLOY" in phase
IsSecondDeploy(phase) == Contains(SECOND, phase) /\ Contains(DEPLOY, phase)

\* variant: the flag follows the latest reading
set_flag_latest(flag, hit) == hit

\* if hit: flag = True
set_flag(flag, hit) == flag \/ hit

\* variant: no remapping to DESCENT
display_phase_raw(phase) == phase

\* the if / elif / else that chooses display_phase
display_phase_of(phase) ==
  IF IsMainDeploy(phase) THEN DESCENT
  ELSE IF IsSecondDeploy(phase) THEN DESCENT
  ELSE phase

\* elapsed_seconds(): the clock is read as the number of lines read so far
elapsed_seconds == msg_count

\* the lengths of a board's series
SeriesLens(b) ==
  {Len(b[f]) : f \in (DOMAIN b) \ {"main_deploy", "second_deploy"}}

UNKNOWN == <<"U", "N", "K", "N", "O", "W", "N">>

NoStatus ==
  [phase |-> <<>>, main_deployed |-> FALSE, second_deployed |-> FALSE,
   altitude |-> 0]

\* SharedDataStore.get_board_status, for a board that has data
get_board_status(b) ==
  [phase |-> IF Len(b.phase) > 0 THEN Last(b.phase) ELSE UNKNOWN,
   main_deployed |-> b.main_deploy,
   second_deployed |-> b.second_deploy,
   altitude |-> IF Len(b.alt) > 0 THEN Last(b.alt) ELSE 0]

\* SharedDataStore.get_board_status as the callbacks call it: None (found
\* FALSE) for a board that is not in board_list or has no altitude yet
get_board_status_by_id(id) ==
  IF id \notin DOMAIN board_list \/ Len(board_list[id].alt) = 0
    THEN [found |-> FALSE, status |-> NoStatus]
    ELSE [found |-> TRUE, status |-> get_board_status(board_list[id])]

\* the dropdown's value None
NoSelection == "None"

\* a board id no line is ever ingested for
UnknownBoard == str(NumBoards)

\* what a dropdown can hold
Selections == BoardIds \cup {UnknownBoard, NoSelection}

\* variant: the card is built without looking the board up
card_of_unchecked(selected_board) == "status"

\* update_dashboard_deploy: which card the if / elif chain builds
card_of(selected_board) ==
  IF DOMAIN board_list = {} THEN "no_boards"
  ELSE IF selected_board = NoSelection THEN "select"
  ELSE IF selected_board \in DOMAIN board_list
    THEN IF get_board_status_by_id(selected_board).found
           THEN "status" ELSE "loading"
  ELSE "not_found"

NoView ==
  [seen |-> FALSE, board |-> "", lens |-> {}, status |-> NoStatus,
   card |-> ""]

\* --- unifiedDashboard.py: serial_fetcher_thread --------------------------

\* variant: the board is inferred from the count of all lines read, as
\* ws_listener of deploymentDashboard.py infers it
fetcher_board_counted(round_robin, count) == str(count % NumBoards)

\* board_id = str(board_round_robin % shared.num_boards); msg_count is not
\* consulted
fetcher_board(round_robin, count) == str(round_robin % NumBoards)

\* readline, strip, msg_count += 1, parse_csv_string, "if not parsed:
\* continue", board_id = str(board_round_robin % num_boards)
serial_read ==
  /\ prog = "unified"
  /\ f_pc = "read"
  /\ msg_count < MaxMsgs
  /\ \E l \in UnifiedLines :
       \E p \in {parsed_unified[l]} :
         /\ line' = l
         /\ parsed' = p
         /\ f_pc' = IF p.ok THEN "lock" ELSE "read"
         /\ board_id' = IF p.ok
                         THEN fetcher_board(board_round_robin, msg_count + 1)
                         ELSE board_id
  /\ msg_count' = msg_count + 1
  /\ UNCHANGED <<prog, storeVars, statusVars, prediction_memory, lock,
                 board_round_robin, display_phase, poll_i, all_board, view>>

\* update_board_data: with self.lock, and the two "not in" initialisations
update_lock ==
  /\ prog = "unified"
  /\ f_pc = "lock"
  /\ lock = "free"
  /\ lock' = "fetcher"
  /\ board_list' = IF board_id \in DOMAIN board_list THEN board_list
                   ELSE dict_set(board_list, board_id, init_board_data)
  /\ deployment_history' =
       IF board_id \in DOMAIN deployment_history THEN deployment_history
       ELSE dict_set(deployment_history, board_id, NoHistory)
  /\ f_pc' = "flags"
  /\ UNCHANGED <<prog, statusVars, prediction_memory, msg_count,
                 board_round_robin, line, parsed, board_id, display_phase,
                 poll_i, all_board, view>>

\* update_board_data: the deployment flags and display_phase
update_flags ==
  /\ prog = "unified"
  /\ f_pc = "flags"
  /\ LET phase  == upper(parsed.data.phase)
         main   == IsMainDeploy(phase)
         second == ~IsMainDeploy(phase) /\ IsSecondDeploy(phase)
         h      == deployment_history[board_id]
         b      == board_list[board_id]
     IN  /\ deployment_history' =
              dict_set(deployment_history, board_id,
                [main_deployed   |-> set_flag(h.main_deployed, main),
                 second_deployed |-> set_flag(h.second_deployed, second)])
         /\ board_list' =
              dict_set(board_list, board_id,
                [b EXCEPT !.main_deploy   = set_flag(@, main),
                          !.second_deploy = set_flag(@, second)])
         /\ display_phase' = display_phase_of(phase)
  /\ f_pc' = "numeric"
  /\ UNCHANGED <<prog, statusVars, prediction_memory, lock, msg_count,
                 board_round_robin, line, parsed, board_id, poll_i,
                 all_board, view>>

\* update_board_data: the nine numeric appends
update_numeric ==
  /\ prog = "unified"
  /\ f_pc = "numeric"
  /\ LET d == parsed.data
         b == board_list[board_id]
     IN  board_list' =
           dict_set(board_list, board_id,
             [b EXCEPT !.x = Append(@, d.accel_x),
                       !.y = Append(@, d.accel_y),
                       !.z = Append(@, d.accel_z),
                       !.lat = Append(@, d.lat),
                       !.lon = Append(@, d.lon),
                       !.Tempurature = Append(@, d.temp),
                       !.Pressure = Append(@, d.pressure),
                       !.Humidity = Append(@, d.humidity),
                       !.alt = Append(@, d.alt)])
  /\ f_pc' = "phase"
  /\ UNCHANGED <<prog, deployment_history, statusVars, prediction_memory,
                 lock, msg_count, board_round_robin, line, parsed, board_id,
                 display_phase, poll_i, all_board, view>>

\* update_board_data: the phase and time appends and the end of the with
\* block; then the fetcher advances board_round_robin
update_phase ==
  /\ prog = "unified"
  /\ f_pc = "phase"
  /\ LET b == board_list[board_id]
     IN  board_list' =
           dict_set(board_list, board_id,
             [b EXCEPT !.phase = Append(@, display_phase),
                       !.time = Append(@, elapsed_seconds)])
  /\ lock' = "free"
  /\ board_round_robin' =
       (board_round_robin + 1) % Max(1, NumBoards)
  /\ f_pc' = "read"
  /\ UNCHANGED <<prog, deployment_history, statusVars, prediction_memory,
                 msg_count, line, parsed, board_id, display_phase, poll_i,
                 all_board, view>>

\* --- groundDashboard.py: data_fetcher_all, mode "api" --------------------

\* requests.get(.../gcs/all) answered with 200; all_board = [].  The poll's
\* line for a board is drawn when the loop reaches that board.
api_poll ==
  /\ prog = "ground"
  /\ f_pc = "poll"
  /\ all_board' = <<>>
  /\ poll_i' = 0
  /\ f_pc' = "line"
  /\ UNCHANGED <<prog, storeVars, statusVars, prediction_memory, lock,
                 msg_count, board_round_robin, line, parsed, board_id,
                 display_phase, view>>

\* where the for loop over data.items() goes after board number i
after_board(i, last_pc) == IF i + 1 < NumBoards THEN "line" ELSE last_pc

\* for board_id, csv_string in data.items(): parse_csv_string, "if not v:
\* continue", all_board.append(v), the "not in board_list" initialisation
fetch_line ==
  /\ prog = "ground"
  /\ f_pc = "line"
  /\ msg_count < MaxMsgs
  /\ \E l \in GroundLines :
       \E v \in {parsed_ground[l]} :
           /\ line' = l
           /\ parsed' = v
           /\ board_id' = str(poll_i)
           /\ IF v.ok
                THEN /\ all_board' = Append(all_board, v.data)
                     /\ board_list' =
                          IF str(poll_i) \in DOMAIN board_list
                            THEN board_list
                            ELSE dict_set(board_list, str(poll_i),
                                          init_board_data_ground)
                     /\ f_pc' = "numeric"
                     /\ poll_i' = poll_i
                ELSE /\ f_pc' = after_board(poll_i, "poll")
                     /\ poll_i' = poll_i + 1
                     /\ UNCHANGED <<all_board, board_list>>
  /\ msg_count' = msg_count + 1
  /\ UNCHANGED <<prog, deployment_history, statusVars, prediction_memory,
                 lock, board_round_robin, display_phase, view>>

\* the ten numeric appends, x to alt
ground_numeric ==
  /\ prog = "ground"
  /\ f_pc = "numeric"
  /\ LET v == parsed.data
         b == board_list[board_id]
     IN  board_list' =
           dict_set(board_list, board_id,
             [b EXCEPT !.x = Append(@, v.x),
                       !.y = Append(@, v.y),
                       !.z = Append(@, v.z),
                       !.lat = Append(@, v.lat),
                       !.lon = Append(@, v.lon),
                       !.Tempurature = Append(@, v.temp),
                       !.Pressure = Append(@, v.pressure),
                       !.Humidity = Append(@, v.humidity),
                       !.speed = Append(@, v.speed),
                       !.alt = Append(@, v.alt)])
  /\ f_pc' = "flags"
  /\ UNCHANGED <<prog, deployment_history, statusVars, prediction_memory,
                 lock, msg_count, board_round_robin, line, parsed, board_id,
                 display_phase, poll_i, all_board, view>>

\* phase_raw = v["phase"][0].upper() and the deploy detection
ground_flags ==
  /\ prog = "ground"
  /\ f_pc = "flags"
  /\ LET phase_raw == upper(parsed.data.phase)
         main      == IsMainDeploy(phase_raw)
         second    == ~IsMainDeploy(phase_raw) /\ IsSecondDeploy(phase_raw)
         b         == board_list[board_id]
     IN  /\ board_list' =
              dict_set(board_list, board_id,
                [b EXCEPT !.main_deploy   = set_flag(@, main),
                          !.second_deploy = set_flag(@, second)])
         /\ display_phase' = display_phase_of(phase_raw)
  /\ f_pc' = "phase"
  /\ UNCHANGED <<prog, deployment_history, statusVars, prediction_memory,
                 lock, msg_count, board_round_robin, line, parsed, board_id,
                 poll_i, all_board, view>>

\* board_list[board_id]["phase"].append(display_phase)
ground_phase ==
  /\ prog = "ground"
  /\ f_pc = "phase"
  /\ LET b == board_list[board_id]
     IN  board_list' =
           dict_set(board_list, board_id,
             [b EXCEPT !.phase = Append(@, display_phase)])
  /\ f_pc' = "time"
  /\ UNCHANGED <<prog, deployment_history, statusVars, prediction_memory,
                 lock, msg_count, board_round_robin, line, parsed, board_id,
                 display_phase, poll_i, all_board, view>>

\* board_list[board_id]["time"].append(elapsed_seconds()); next board
ground_time ==
  /\ prog = "ground"
  /\ f_pc = "time"
  /\ LET b == board_list[board_id]
     IN  board_list' =
           dict_set(board_list, board_id,
             [b EXCEPT !.time = Append(@, elapsed_seconds)])
  /\ f_pc' = after_board(poll_i, "poll")
  /\ poll_i' = poll_i + 1
  /\ UNCHANGED <<prog, deployment_history, statusVars, prediction_memory,
                 lock, msg_count, board_round_robin, line, parsed, board_id,
                 display_phase, all_board, view>>

\* --- additionals/deployDashboard.py: fetch_deployment_status -------------

\* requests.get(.../gcs/all) answered with 200; new_statuses = {}.  A poll
\* that has begun is followed to its end.
deploy_poll ==
  /\ prog = "deploy"
  /\ f_pc = "poll"
  /\ msg_count < MaxMsgs
  /\ new_statuses' = <<>>
  /\ poll_i' = 0
  /\ f_pc' = "line"
  /\ UNCHANGED <<prog, storeVars, board_statuses, prediction_memory, lock,
                 msg_count, board_round_robin, line, parsed, board_id,
                 display_phase, all_board, view>>

\* one round of the for loop over data.items()
deploy_line ==
  /\ prog = "deploy"
  /\ f_pc = "line"
  /\ \E l \in DeployLines : \E parsed_data \in {parsed_deploy[l]} :
       LET id    == str(poll_i)
           phase == parsed_data.data.phase
           h     == IF id \in DOMAIN deployment_history
                      THEN deployment_history[id] ELSE NoHistory
           h2    == [main_deployed |->
                       set_flag(h.main_deployed, IsMainDeploy(phase)),
                     second_deployed |->
                       set_flag(h.second_deployed, IsSecondDeploy(phase))]
       IN  /\ line' = l
           /\ parsed' = parsed_data
           /\ board_id' = id
           /\ IF parsed_data.ok
                THEN /\ deployment_history' =
                          dict_set(deployment_history, id, h2)
                     /\ new_statuses' =
                          dict_set(new_statuses, id,
                            [phase |-> phase,
                             main_deployed |-> h2.main_deployed,
                             second_deployed |-> h2.second_deployed,
                             altitude |-> parsed_data.data.alt])
                ELSE UNCHANGED <<deployment_history, new_statuses>>
  /\ msg_count' = msg_count + 1
  /\ f_pc' = after_board(poll_i, "publish")
  /\ poll_i' = poll_i + 1
  /\ UNCHANGED <<prog, board_list, board_statuses, prediction_memory, lock,
                 board_round_robin, display_phase, all_board, view>>

\* board_statuses = new_statuses
deploy_publish ==
  /\ prog = "deploy"
  /\ f_pc = "publish"
  /\ board_statuses' = new_statuses
  /\ f_pc' = "poll"
  /\ UNCHANGED <<prog, storeVars, new_statuses, prediction_memory, lock,
                 fetcherVars_but_pc, view>>

\* --- the callbacks --------------------------------------------------------

\* unifiedDashboard.py ground_update_charts: with shared.lock, the selected
\* board's series are read for the charts and its status row is built
ground_update_charts ==
  /\ prog = "unified"
  /\ ~view.seen
  /\ lock = "free"
  /\ \E selected_board \in DOMAIN board_list :
       /\ Len(board_list[selected_board].x) > 0
       /\ view' = [seen |-> TRUE, board |-> selected_board,
                   lens |-> SeriesLens(board_list[selected_board]),
                   status |-> get_board_status(board_list[selected_board]),
                   card |-> "charts"]
  /\ lock' = "reader"
  /\ UNCHANGED <<prog, storeVars, statusVars, prediction_memory,
                 fetcherVars>>

\* unifiedDashboard.py update_dashboard_deploy: with shared.lock, the card
\* for the dropdown's value is chosen; a status card is built from
\* get_board_status
update_dashboard_deploy ==
  /\ prog = "unified"
  /\ ~view.seen
  /\ lock = "free"
  /\ \E selected_board \in Selections :
       \E card \in {card_of(selected_board)} :
         view' = [seen |-> TRUE, board |-> selected_board, lens |-> {},
                  status |-> IF card = "status"
                               THEN get_board_status_by_id(
                                      selected_board).status
                               ELSE NoStatus,
                  card |-> card]
  /\ lock' = "reader"
  /\ UNCHANGED <<prog, storeVars, statusVars, prediction_memory,
                 fetcherVars>>

\* groundDashboard.py update_charts: the same reads, without a lock; the
\* status row is skipped while alt or phase is empty
update_charts ==
  /\ prog = "ground"
  /\ ~view.seen
  /\ \E selected_board \in DOMAIN board_list :
       LET bdata == board_list[selected_board]
       IN  /\ Len(bdata.x) > 0
           /\ view' = [seen |-> TRUE, board |-> selected_board,
                       lens |-> SeriesLens(bdata),
                       status |-> IF Len(bdata.alt) = 0 \/ Len(bdata.phase) = 0
                                    THEN NoStatus
                                    ELSE get_board_status(bdata),
                       card |-> "charts"]
  /\ UNCHANGED <<prog, storeVars, statusVars, prediction_memory, lock,
                 fetcherVars>>

\* the callback returns what it built; a lock it holds is released
callback_return ==
  /\ view.seen
  /\ view' = NoView
  /\ lock' = IF lock = "reader" THEN "free" ELSE lock
  /\ UNCHANGED <<prog, storeVars, statusVars, prediction_memory,
                 fetcherVars>>

PredictedApogee == 500 * Micro

\* variant: a prediction is stored for a board that has none yet
save_prediction_first(memory, n_clicks, predicted_apogee, id) ==
  IF n_clicks # 0 /\ predicted_apogee # 0 /\ id # NoSelection
     /\ id \notin DOMAIN memory
    THEN dict_set(memory, id, predicted_apogee)
    ELSE memory

\* the body of save_prediction_ground (save_prediction in
\* groundDashboard.py): prediction_memory after the call.  n_clicks None and
\* a predicted_apogee of None or "" are written 0.
save_prediction_ground(memory, n_clicks, predicted_apogee, id) ==
  IF n_clicks # 0 /\ predicted_apogee # 0 /\ id # NoSelection
    THEN dict_set(memory, id, predicted_apogee)
    ELSE memory

\* save_prediction_ground: fires on a click and on a change of either input
save_prediction ==
  /\ prog \in {"unified", "ground"}
  /\ \E n_clicks \in {0, 1}, predicted_apogee \in {0, PredictedApogee},
        id \in {str(0)} :
       prediction_memory' =
         save_prediction_ground(prediction_memory, n_clicks,
                                predicted_apogee, id)
  /\ UNCHANGED <<prog, storeVars, statusVars, lock, fetcherVars, view>>

\* --- the three scripts, one per run --------------------------------------

AggStart ==
  /\ board_list = <<>>
  /\ deployment_history = <<>>
  /\ board_statuses = <<>>
  /\ new_statuses = <<>>
  /\ all_board = <<>>
  /\ prediction_memory = <<>>
  /\ msg_count = 0
  /\ board_round_robin = 0
  /\ lock = "free"
  /\ line = <<>>
  /\ parsed = None("")
  /\ board_id = str(0)
  /\ display_phase = <<>>
  /\ poll_i = 0
  /\ view = NoView

AggInit ==
  /\ prog \in {"unified", "ground", "deploy"}
  /\ f_pc = IF prog = "unified" THEN "read" ELSE "poll"
  /\ AggStart

AggIdle ==
  /\ prog = "idle"
  /\ f_pc = "idle"
  /\ AggStart

(***************************************************************************)
(* Part 6.  Predictions and scores: unifiedDashboard.py callbacks          *)
(*                                                                         *)
(* The board store is given: each board holds a history some ingests have  *)
(* left.  Altitudes and predictions are in millionths of a metre, as in    *)
(* the store.  Scores are exact fractions; the float arithmetic of the     *)
(* code differs from them below the two decimals a row shows, except at    *)
(* rounding ties, which the stores of this model stay away from.           *)
(***************************************************************************)

RECURSIVE gcd(_, _)
gcd(a, b) == IF b = 0 THEN a ELSE gcd(b, a % b)

\* a fraction in lowest terms with a positive denominator
Frac(n, d) ==
  LET g  == gcd(Abs(n), Abs(d))
      sg == IF d < 0 THEN -1 ELSE 1
  IN  [n |-> sg * (n \div g), d |-> sg * (d \div g)]

Whole(n) == [n |-> n, d |-> 1]

FAdd(x, y) == Frac(x.n * y.d + y.n * x.d, x.d * y.d)

FSub(x, y) == Frac(x.n * y.d - y.n * x.d, x.d * y.d)

FMul(x, y) == Frac(x.n * y.n, x.d * y.d)

FDiv(x, y) == Frac(x.n * y.d, x.d * y.n)

FLeq(x, y) == x.n * y.d <= y.n * x.d

\* max(bdata["alt"])
RECURSIVE MaxOf(_)
MaxOf(seq) ==
  IF Len(seq) = 1 THEN seq[1]
  ELSE Max(seq[1], MaxOf(SubSeq(seq, 2, Len(seq))))

N_A == <<"N", "/", "A">>

\* R * pi / 180, metres per degree of latitude (111194.93)
MetresPerDegree == 111195

\* latlon_to_xy and math.sqrt(dx**2 + dy**2) for two samples of one
\* longitude (dlon = 0, so dx = 0 and the distance is |dy|), in tenths of a
\* metre as f"{dist_val:.1f}" rounds it
dist_tenths(lat0, lat_end) ==
  RoundHalfEven(Abs(lat_end - lat0) * MetresPerDegree, 100000)

\* distance_m: "N/A", or f"{dist_val:.1f}"
distance_m(bdata) ==
  IF Len(bdata.lat) = 0 \/ Len(bdata.lon) = 0 THEN N_A
  ELSE LET t == dist_tenths(bdata.lat[1], Last(bdata.lat))
       IN  NatStr(t \div 10) \o <<".">> \o NatStr(t % 10)

\* shared.prediction_memory.get(bid, None), None written 0
stored_prediction(memory, bid) ==
  IF bid \in DOMAIN memory THEN memory[bid] ELSE 0

\* apogee_score: 0 without a prediction, else (index_score_pct / 100) * 15
apogee_score(max_alt, prediction) ==
  IF prediction = 0 THEN Whole(0)
  ELSE LET ratio == FDiv(FSub(Whole(max_alt), Whole(prediction)),
                         Whole(prediction))
           index_score_pct ==
             FMul(Whole(100),
                  FDiv(Whole(1), FAdd(Whole(1), FMul(ratio, ratio))))
       IN  FMul(FDiv(index_score_pct, Whole(100)), Whole(15))

\* variant: no "if dist_val <= 500"
distance_score_unbounded(distance) ==
  IF distance = N_A THEN Whole(0)
  ELSE LET dist_val == Frac(pyfloat(distance).val, Micro)
       IN  FMul(FDiv(FMul(FSub(Whole(1), FDiv(dist_val, Whole(500))),
                          Whole(100)), Whole(100)),
                Frac(15, 2))

\* distance_score: 0 for "N/A" and beyond 500 m, else
\* ((1 - dist_val / 500) * 100 / 100) * 7.5 with dist_val = float(distance_m)
distance_score(distance) ==
  IF distance = N_A THEN Whole(0)
  ELSE LET dist_val == Frac(pyfloat(distance).val, Micro)
       IN  IF FLeq(dist_val, Whole(500))
             THEN FMul(FDiv(FMul(FSub(Whole(1), FDiv(dist_val, Whole(500))),
                                 Whole(100)), Whole(100)),
                       Frac(15, 2))
             ELSE Whole(0)

of_22_5 == <<"/", "2", "2", ".", "5">>

\* f"{total_score:.2f}/22.5"
score_text(total_score) ==
  LET q == RoundHalfEven(100 * Abs(total_score.n), total_score.d)
  IN  (IF total_score.n < 0 /\ q > 0 THEN <<"-">> ELSE <<>>)
        \o NatStr(q \div 100) \o <<".">> \o PadStr(q % 100, 2) \o of_22_5

Not_set == <<"N", "o", "t", " ", "s", "e", "t">>

\* the status row of one board: the fields the score depends on
status_row(bdata, memory, bid) ==
  LET max_alt    == MaxOf(bdata.alt)
      prediction == stored_prediction(memory, bid)
      distance   == distance_m(bdata)
      total      == FAdd(apogee_score(max_alt, prediction),
                         distance_score(distance))
  IN  [max_alt   |-> max_alt,
       predicted |-> IF prediction # 0 THEN NatStr(prediction \div Micro)
                                            \o <<"m">>
                                       ELSE Not_set,
       prediction |-> prediction,
       positions |-> Len(bdata.lat),
       distance  |-> distance,
       score     |-> score_text(total)]

\* --- the stores a run is started from -------------------------------------

\* a board's history: the samples (alt, lat) some ingests appended
board_of(samples) ==
  LET n == Len(samples)
      r == Reading(0, RISING)
  IN  [x |-> [i \in 1..n |-> r.accel_x], y |-> [i \in 1..n |-> r.accel_y],
       z |-> [i \in 1..n |-> r.accel_z],
       lat |-> [i \in 1..n |-> samples[i][2]],
       lon |-> [i \in 1..n |-> r.lon],
       Tempurature |-> [i \in 1..n |-> r.temp],
       Pressure |-> [i \in 1..n |-> r.pressure],
       Humidity |-> [i \in 1..n |-> r.humidity],
       alt |-> [i \in 1..n |-> samples[i][1]],
       phase |-> [i \in 1..n |-> RISING],
       time |-> [i \in 1..n |-> i],
       main_deploy |-> FALSE, second_deploy |-> FALSE]

Lat0 == 30 * Micro

\* altitudes of the second sample: 500 m, 1000 m, 1500 m
ScoreAlts == {500 * Micro, 1000 * Micro, 1500 * Micro}

\* latitudes of the second sample: 0 m, 250.0 m, 500.0 m and 600.0 m north
ScoreLats == {Lat0, Lat0 + 2248, Lat0 + 4497, Lat0 + 5396}

ScoreHistories ==
  {<< <<1000 * Micro, Lat0>> >>}
    \cup {<< <<1000 * Micro, Lat0>>, <<a, l>> >> :
            a \in ScoreAlts, l \in ScoreLats}

\* the values the prediction input can hold
ScorePredictions == {0, 500 * Micro, 1000 * Micro}

NoSave == [called |-> FALSE, n_clicks |-> 0, predicted_apogee |-> 0,
           board_id |-> NoSelection, previous |-> 0]

ScoreIdle ==
  /\ pred_call = NoSave
  /\ status_rows = <<>>

ScoreInit ==
  /\ prog = "unified"
  /\ f_pc = "stopped"
  /\ \E h \in ScoreHistories :
       board_list =
         (str(0) :> board_of(h))
           @@ (str(1) :> board_of(<< <<1000 * Micro, Lat0>> >>))
  /\ deployment_history = [b \in {str(0), str(1)} |-> NoHistory]
  /\ board_statuses = <<>>
  /\ new_statuses = <<>>
  /\ all_board = <<>>
  /\ prediction_memory = <<>>
  /\ msg_count = 0
  /\ board_round_robin = 0
  /\ lock = "free"
  /\ line = <<>>
  /\ parsed = None("")
  /\ board_id = str(0)
  /\ display_phase = <<>>
  /\ poll_i = 0
  /\ view = NoView
  /\ ScoreIdle

\* save_prediction_ground, with the arguments and the value stored before
\* the call kept
save_prediction_call ==
  /\ \E n_clicks \in {0, 1}, predicted_apogee \in ScorePredictions,
        id \in {str(0), str(1), NoSelection} :
       /\ prediction_memory' =
            save_prediction_ground(prediction_memory, n_clicks,
                                   predicted_apogee, id)
       /\ pred_call' = [called |-> TRUE, n_clicks |-> n_clicks,
                        predicted_apogee |-> predicted_apogee,
                        board_id |-> id,
                        previous |->
                          stored_prediction(prediction_memory, id)]
  /\ UNCHANGED <<prog, storeVars, statusVars, lock, fetcherVars, view,
                 status_rows>>

\* ground_update_charts: with shared.lock, the status rows of all boards
\* that have an altitude and a phase
score_rows ==
  /\ lock = "free"
  /\ status_rows' =
       [bid \in {b \in DOMAIN board_list :
                   /\ Len(board_list[b].alt) > 0
                   /\ Len(board_list[b].phase) > 0} |->
          status_row(board_list[bid], prediction_memory, bid)]
  /\ UNCHANGED <<aggVars, pred_call>>

(***************************************************************************)
(* Prediction form (unifiedDashboard.py save_prediction_ground,            *)
(* groundDashboard.py save_prediction)                                     *)
(***************************************************************************)

\* how often the Save Prediction button is clicked
MaxClicks == 2

\* the layout's value of predicted-apogee-input-ground
InitialApogee == 2 * PredictedApogee

\* what the number input can hold: nothing, or a positive apogee
FormValues == {0, PredictedApogee, InitialApogee}

\* the boards the dropdown offers (clearable=False: one is always selected)
FormBoards == {str(0), str(1)}

\* the layout: n_clicks unset, value=1000, value="0"; prevent_initial_call
FormStart ==
  /\ btn_n_clicks = 0
  /\ input_value = InitialApogee
  /\ select_value = str(0)
  /\ triggered = "none"

FormIdle == FormStart

\* the callback, called by Dash with the current value of its three Inputs
\* whenever one of them changes
form_callback ==
  prediction_memory' =
    save_prediction_ground(prediction_memory, btn_n_clicks', input_value',
                           select_value')

\* a click on Save Prediction: btn_n_clicks counts it
click_save ==
  /\ btn_n_clicks < MaxClicks
  /\ btn_n_clicks' = btn_n_clicks + 1
  /\ triggered' = "n_clicks"
  /\ UNCHANGED <<input_value, select_value>>
  /\ form_callback

\* the predicted apogee is edited
edit_apogee ==
  /\ \E value \in FormValues \ {input_value} :
       input_value' = value
  /\ triggered' = "value"
  /\ UNCHANGED <<btn_n_clicks, select_value>>
  /\ form_callback

\* another board is selected for the prediction
select_board ==
  /\ \E value \in FormBoards \ {select_value} :
       select_value' = value
  /\ triggered' = "board"
  /\ UNCHANGED <<btn_n_clicks, input_value>>
  /\ form_callback

(***************************************************************************)
(* Adapters that infer the board from a counter                            *)
(* (unifiedDashboard.py serial_fetcher_thread,                             *)
(*  additionals/deploymentDashboard.py ws_listener,                        *)
(*  groundDashboard.py data_fetcher_serial)                                *)
(***************************************************************************)

AdapterStart ==
  /\ retry_count = 0
  /\ wait_time = 0
  /\ message_count = 0
  /\ error_count = 0
  /\ skip_log = ""
  /\ src_sent = 0
  /\ src_lost = 0
  /\ src_rejected = 0
  /\ failures = 0
  /\ invalid_uri = FALSE

AdapterIdle == AdapterStart

\* the board whose line the source emits next: one line per board, in the
\* cyclic order 0..N-1
src_board(sent) == str(sent % NumBoards)

\* --- unifiedDashboard.py serial_fetcher_thread and its source ------------

\* the source emits a line and the fetcher reads it
unified_line ==
  /\ serial_read
  /\ src_sent' = src_sent + 1
  /\ src_rejected' = IF parsed'.ok THEN src_rejected ELSE src_rejected + 1
  /\ UNCHANGED <<src_lost, listenerVars, serialVars>>

\* the source emits a line that never reaches the fetcher
unified_lost ==
  /\ prog = "unified"
  /\ f_pc = "read"
  /\ src_sent < MaxMsgs
  /\ src_sent' = src_sent + 1
  /\ src_lost' = src_lost + 1
  /\ UNCHANGED <<aggVars, src_rejected, listenerVars, serialVars>>

\* --- additionals/deploymentDashboard.py ws_listener ----------------------

\* variant: one retry less
max_retries_less == 2 * NumBoards

\* max_retries = 5
max_retries == 5

ListenerLines == {L_rising, L_main, L_header, L_bad}

parsed_deployment ==
  [l \in ListenerLines |-> parse_csv_string_deployment(l)]

\* wait_time = min(5 * retry_count, 30)
wait_time_of(count) == Min(5 * count, 30)

listenerOthers ==
  <<prog, board_list, prediction_memory, lock, msg_count,
    board_round_robin, display_phase, poll_i, all_board, view, new_statuses,
    serialVars>>

\* websockets.connect succeeds: retry_count = 0, message_count = 0
ws_connected ==
  /\ prog = "deployment"
  /\ f_pc = "connect"
  /\ ~invalid_uri
  /\ retry_count' = 0
  /\ message_count' = 0
  /\ failures' = 0
  /\ src_sent' = 0
  /\ src_lost' = 0
  /\ src_rejected' = 0
  /\ f_pc' = "listen"
  /\ UNCHANGED <<listenerOthers, deployment_history, board_statuses, line,
                 parsed, board_id, wait_time, invalid_uri>>

\* except InvalidStatusCode: the return at max_retries skips the sleep
ws_rejected ==
  /\ prog = "deployment"
  /\ f_pc = "connect"
  /\ ~invalid_uri
  /\ retry_count' = retry_count + 1
  /\ failures' = failures + 1
  /\ IF retry_count' >= max_retries
       THEN f_pc' = "stopped" /\ UNCHANGED wait_time
       ELSE f_pc' = "wait" /\ wait_time' = wait_time_of(retry_count')
  /\ UNCHANGED <<listenerOthers, deployment_history, board_statuses, line,
                 parsed, board_id, message_count, invalid_uri, sourceVars>>

\* except InvalidURI: return
ws_invalid_uri ==
  /\ prog = "deployment"
  /\ f_pc = "connect"
  /\ invalid_uri
  /\ f_pc' = "stopped"
  /\ UNCHANGED <<listenerOthers, deployment_history, board_statuses, line,
                 parsed, board_id, listenerVars, sourceVars>>

\* except Exception: the connect fails, or the connection breaks while the
\* listener waits for a message
ws_error ==
  /\ prog = "deployment"
  /\ f_pc \in {"connect", "listen"}
  /\ ~invalid_uri
  /\ retry_count' = retry_count + 1
  /\ failures' = failures + 1
  /\ f_pc' = "wait"
  /\ wait_time' = wait_time_of(retry_count')
  /\ UNCHANGED <<listenerOthers, deployment_history, board_statuses, line,
                 parsed, board_id, message_count, invalid_uri, sourceVars>>

\* the server closes the connection: the async for ends without exception
ws_closed ==
  /\ prog = "deployment"
  /\ f_pc = "listen"
  /\ f_pc' = "wait"
  /\ wait_time' = wait_time_of(retry_count)
  /\ UNCHANGED <<listenerOthers, deployment_history, board_statuses, line,
                 parsed, board_id, retry_count, message_count, failures,
                 invalid_uri, sourceVars>>

\* asyncio.sleep(wait_time) is over: while retry_count < max_retries
ws_wake ==
  /\ prog = "deployment"
  /\ f_pc = "wait"
  /\ f_pc' = IF retry_count < max_retries THEN "connect" ELSE "stopped"
  /\ UNCHANGED <<listenerOthers, deployment_history, board_statuses, line,
                 parsed, board_id, listenerVars, sourceVars>>

\* one round of "async for message in ws": the source's next line arrives
ws_message ==
  /\ prog = "deployment"
  /\ f_pc = "listen"
  /\ src_sent < MaxMsgs
  /\ message_count' = message_count + 1
  /\ src_sent' = src_sent + 1
  /\ \E message \in ListenerLines :
       \E parsed_data \in {parsed_deployment[message]} :
         LET id    == str(message_count' % NumBoards)
             phase == parsed_data.data.phase
             h     == IF id \in DOMAIN deployment_history
                        THEN deployment_history[id] ELSE NoHistory
             h2    == [main_deployed |->
                         set_flag(h.main_deployed, IsMainDeploy(phase)),
                       second_deployed |->
                         set_flag(h.second_deployed, IsSecondDeploy(phase))]
         IN  /\ line' = message
             /\ parsed' = parsed_data
             /\ IF parsed_data.ok
                  THEN /\ board_id' = id
                       /\ deployment_history' =
                            dict_set(deployment_history, id, h2)
                       /\ board_statuses' =
                            dict_set(board_statuses, id,
                              [phase |-> phase,
                               main_deployed |-> h2.main_deployed,
                               second_deployed |-> h2.second_deployed,
                               altitude |-> parsed_data.data.alt])
                       /\ UNCHANGED src_rejected
                  ELSE /\ src_rejected' = src_rejected + 1
                       /\ UNCHANGED <<board_id, deployment_history,
                                      board_statuses>>
  /\ UNCHANGED <<listenerOthers, f_pc, retry_count, wait_time, failures,
                 invalid_uri, src_lost>>

\* the source's next line never reaches the listener
ws_lost ==
  /\ prog = "deployment"
  /\ f_pc = "listen"
  /\ src_sent < MaxMsgs
  /\ src_sent' = src_sent + 1
  /\ src_lost' = src_lost + 1
  /\ UNCHANGED <<aggVars, src_rejected, listenerVars, serialVars>>

\* --- groundDashboard.py data_fetcher_serial ------------------------------

SerialLines == {G_rising, G_main, L_header, G_header_num, G_bad, L_rising}

parsed_serial == [l \in SerialLines |-> parse_csv_string_ground(l)]

Skipping_invalid_line == "Skipping invalid line"

\* one round of the while loop for a non-empty line: line_count (msg_count
\* here), parse_csv_string, the error count and its message, or the appends
\* to board "0"
data_fetcher_serial ==
  /\ prog = "ground_serial"
  /\ f_pc = "read"
  /\ msg_count < MaxMsgs
  /\ msg_count' = msg_count + 1
  /\ \E l \in SerialLines : \E v \in {parsed_serial[l]} :
       LET id        == str(0)
           b         == IF id \in DOMAIN board_list THEN board_list[id]
                        ELSE init_board_data_ground
           phase_raw == upper(v.data.phase)
           main      == IsMainDeploy(phase_raw)
           second    == ~IsMainDeploy(phase_raw) /\ IsSecondDeploy(phase_raw)
       IN  /\ line' = l
           /\ parsed' = v
           /\ IF ~v.ok
                THEN /\ error_count' = error_count + 1
                     /\ skip_log' = IF error_count' <= 5
                                      THEN Skipping_invalid_line ELSE ""
                     /\ UNCHANGED <<all_board, board_id, board_list,
                                    display_phase>>
                ELSE /\ error_count' = 0
                     /\ skip_log' = ""
                     /\ all_board' = <<v.data>>
                     /\ board_id' = id
                     /\ display_phase' = display_phase_of(phase_raw)
                     /\ board_list' =
                          dict_set(board_list, id,
                            [b EXCEPT
                               !.x = Append(@, v.data.x),
                               !.y = Append(@, v.data.y),
                               !.z = Append(@, v.data.z),
                               !.lat = Append(@, v.data.lat),
                               !.lon = Append(@, v.data.lon),
                               !.Tempurature = Append(@, v.data.temp),
                               !.Pressure = Append(@, v.data.pressure),
                               !.Humidity = Append(@, v.data.humidity),
                               !.speed = Append(@, v.data.speed),
                               !.alt = Append(@, v.data.alt),
                               !.main_deploy = set_flag(@, main),
                               !.second_deploy = set_flag(@, second),
                               !.phase = Append(@, display_phase'),
                               !.time = Append(@, elapsed_seconds)])
  /\ UNCHANGED <<prog, deployment_history, statusVars, prediction_memory,
                 lock, board_round_robin, f_pc, poll_i, view, sourceVars,
                 listenerVars>>

\* the three adapters, one per run
AdapterInit ==
  /\ prog \in {"unified", "deployment", "ground_serial"}
  /\ f_pc = IF prog = "deployment" THEN "connect" ELSE "read"
  /\ AggStart
  /\ retry_count = 0
  /\ wait_time = 0
  /\ message_count = 0
  /\ error_count = 0
  /\ skip_log = ""
  /\ src_sent = 0
  /\ src_lost = 0
  /\ src_rejected = 0
  /\ failures = 0
  /\ invalid_uri \in IF prog = "deployment" THEN BOOLEAN ELSE {FALSE}

(***************************************************************************)
(* REST server (ws_server.py run_data_generator, get_all_devices)          *)
(***************************************************************************)

\* generator ticks a run is followed for
MaxTicks == 6

NoResponse == [sent |-> FALSE, body |-> <<>>]

\* device_data = {}, data_lock = threading.Lock(), counter = 0
ServerStart ==
  /\ data_lock = "free"
  /\ gen_pc = "tick"
  /\ device_id = 0
  /\ counter = 0
  /\ api_device_data = <<>>
  /\ response = NoResponse

ServerIdle == ServerStart

\* variant: the block is entered whoever holds the lock
acquire_unchecked(l) == l \in {"free", "generator"}

\* with data_lock: the block is entered when no thread holds the lock
acquire(l) == l = "free"

\* run_data_generator: elapsed_time is read and data_lock taken
generator_tick ==
  /\ gen_pc = "tick"
  /\ counter < MaxTicks
  /\ acquire(data_lock)
  /\ data_lock' = "generator"
  /\ device_id' = 0
  /\ gen_pc' = "loop"
  /\ UNCHANGED <<counter, api_device_data, response>>

\* one round of the for loop: device_data[str(device_id)] = csv_data, the
\* line generated for this tick's elapsed_time
generator_store ==
  /\ gen_pc = "loop"
  /\ device_id < NumBoards
  /\ api_device_data' = dict_set(api_device_data, str(device_id), counter)
  /\ device_id' = device_id + 1
  /\ UNCHANGED <<data_lock, gen_pc, counter, response>>

\* the with block ends; counter += 1; time.sleep(0.5)
generator_sleep ==
  /\ gen_pc = "loop"
  /\ device_id = NumBoards
  /\ data_lock' = "free"
  /\ counter' = counter + 1
  /\ gen_pc' = "tick"
  /\ UNCHANGED <<device_id, api_device_data, response>>

\* get_all_devices: with data_lock: return jsonify(dict(device_data))
get_all_devices ==
  /\ acquire(data_lock)
  /\ response' = [sent |-> TRUE, body |-> api_device_data]
  /\ UNCHANGED <<data_lock, gen_pc, device_id, counter, api_device_data>>

ExtIdle == FormIdle /\ AdapterIdle /\ ServerIdle

(***************************************************************************)
(* Specifications                                                          *)
(***************************************************************************)

InitSim ==
  SimInit /\ ReadingIdle /\ CodecIdle /\ AggIdle /\ ScoreIdle /\ ExtIdle

NextSim ==
  \/ sampler_tick
       /\ UNCHANGED <<codecVars, readingVars, aggVars, scoreVars, extVars>>
  \/ sampler_generate
       /\ UNCHANGED <<codecVars, readingVars, aggVars, scoreVars, extVars>>

SpecSim == InitSim /\ [][NextSim]_vars

NextHalf ==
  \/ sampler_tick_half
       /\ UNCHANGED <<codecVars, readingVars, aggVars, scoreVars, extVars>>
  \/ sampler_generate
       /\ UNCHANGED <<codecVars, readingVars, aggVars, scoreVars, extVars>>

\* the sampler thread keeps running: its loop is never starved
SpecHalf == InitSim /\ [][NextHalf]_vars /\ WF_vars(NextHalf)

InitCodec ==
  CodecInit /\ SimIdle /\ ReadingIdle /\ AggIdle /\ ScoreIdle /\ ExtIdle

NextCodec ==
  \/ Encode
       /\ UNCHANGED <<simVars, readingVars, aggVars, scoreVars, extVars>>
  \/ Decode
       /\ UNCHANGED <<simVars, readingVars, aggVars, scoreVars, extVars>>
  \/ DecodeDeploy
       /\ UNCHANGED <<simVars, readingVars, aggVars, scoreVars, extVars>>
  \/ DecodeDeployment
       /\ UNCHANGED <<simVars, readingVars, aggVars, scoreVars, extVars>>

SpecCodec == InitCodec /\ [][NextCodec]_vars

InitReading ==
  ReadingInit /\ SimIdle /\ CodecIdle /\ AggIdle /\ ScoreIdle /\ ExtIdle

NextReading ==
  \/ reading_generate
       /\ UNCHANGED <<simVars, codecVars, aggVars, scoreVars, extVars>>

SpecReading == InitReading /\ [][NextReading]_vars

InitScore == ScoreInit /\ SimIdle /\ ReadingIdle /\ CodecIdle /\ ExtIdle

NextScore ==
  \/ save_prediction_call
       /\ UNCHANGED <<simVars, readingVars, codecVars, extVars>>
  \/ score_rows
       /\ UNCHANGED <<simVars, readingVars, codecVars, extVars>>

SpecScore == InitScore /\ [][NextScore]_vars

InitForm ==
  /\ FormStart /\ AdapterIdle /\ ServerIdle
  /\ AggIdle /\ SimIdle /\ ReadingIdle /\ CodecIdle /\ ScoreIdle

formOthers ==
  <<prog, storeVars, statusVars, lock, fetcherVars, view, simVars,
    readingVars, codecVars, scoreVars, adapterVars, serverVars>>

NextForm ==
  \/ click_save /\ UNCHANGED formOthers
  \/ edit_apogee /\ UNCHANGED formOthers
  \/ select_board /\ UNCHANGED formOthers

SpecForm == InitForm /\ [][NextForm]_vars

InitAdapters ==
  /\ AdapterInit /\ FormIdle /\ ServerIdle
  /\ SimIdle /\ ReadingIdle /\ CodecIdle /\ ScoreIdle

adapterOthers ==
  <<simVars, readingVars, codecVars, scoreVars, formVars, serverVars>>

NextAdapters ==
  \/ unified_line /\ UNCHANGED adapterOthers
  \/ unified_lost /\ UNCHANGED adapterOthers
  \/ update_lock /\ UNCHANGED nonAggVars
  \/ update_flags /\ UNCHANGED nonAggVars
  \/ update_numeric /\ UNCHANGED nonAggVars
  \/ update_phase /\ UNCHANGED nonAggVars
  \/ ws_connected /\ UNCHANGED adapterOthers
  \/ ws_rejected /\ UNCHANGED adapterOthers
  \/ ws_invalid_uri /\ UNCHANGED adapterOthers
  \/ ws_error /\ UNCHANGED adapterOthers
  \/ ws_closed /\ UNCHANGED adapterOthers
  \/ ws_wake /\ UNCHANGED adapterOthers
  \/ ws_message /\ UNCHANGED adapterOthers
  \/ ws_lost /\ UNCHANGED adapterOthers
  \/ data_fetcher_serial /\ UNCHANGED adapterOthers

SpecAdapters == InitAdapters /\ [][NextAdapters]_vars

InitApi ==
  /\ ServerStart /\ FormIdle /\ AdapterIdle
  /\ AggIdle /\ SimIdle /\ ReadingIdle /\ CodecIdle /\ ScoreIdle

apiOthers ==
  <<aggVars, simVars, readingVars, codecVars, scoreVars, formVars,
    adapterVars>>

NextApi ==
  \/ generator_tick /\ UNCHANGED apiOthers
  \/ generator_store /\ UNCHANGED apiOthers
  \/ generator_sleep /\ UNCHANGED apiOthers
  \/ get_all_devices /\ UNCHANGED apiOthers

SpecApi == InitApi /\ [][NextApi]_vars

Init ==
  AggInit /\ SimIdle /\ ReadingIdle /\ CodecIdle /\ ScoreIdle /\ ExtIdle

Next ==
  \/ serial_read /\ UNCHANGED nonAggVars
  \/ update_lock /\ UNCHANGED nonAggVars
  \/ update_flags /\ UNCHANGED nonAggVars
  \/ update_numeric /\ UNCHANGED nonAggVars
  \/ update_phase /\ UNCHANGED nonAggVars
  \/ api_poll /\ UNCHANGED nonAggVars
  \/ fetch_line /\ UNCHANGED nonAggVars
  \/ ground_numeric /\ UNCHANGED nonAggVars
  \/ ground_flags /\ UNCHANGED nonAggVars
  \/ ground_phase /\ UNCHANGED nonAggVars
  \/ ground_time /\ UNCHANGED nonAggVars
  \/ deploy_poll /\ UNCHANGED nonAggVars
  \/ deploy_line /\ UNCHANGED nonAggVars
  \/ deploy_publish /\ UNCHANGED nonAggVars
  \/ ground_update_charts /\ UNCHANGED nonAggVars
  \/ update_dashboard_deploy /\ UNCHANGED nonAggVars
  \/ update_charts /\ UNCHANGED nonAggVars
  \/ callback_return /\ UNCHANGED nonAggVars
  \/ save_prediction /\ UNCHANGED nonAggVars

Spec == Init /\ [][Next]_vars

(***************************************************************************)
(* Claims on the flight simulator (SpecSim)                                *)
(***************************************************************************)

PhaseOrder ==
  <<GROUND, RISING, COASTING, MAIN_DEPLOY, SECOND_DEPLOY, LANDED>>

PhaseIndex(p) == CHOOSE i \in 1..6 : PhaseOrder[i] = p

\* C5: under non-decreasing elapsed_time the phases published for a board
\* never regress in the order GROUND, RISING, COASTING, MAIN DEPLOY,
\* SECOND DEPLOY, LANDED: each reading's phase index is at least that of the
\* reading before it (hence of every earlier one).
C5_PhaseNeverRegresses ==
  [][\A d \in Devices :
       device_data[d] # <<>> =>
         PhaseIndex(device_data'[d]) >= PhaseIndex(device_data[d])]_vars

\* a board that went through SECOND DEPLOY and now publishes LANDED
C5_Witness ==
  \E d \in Devices :
    /\ device_data[d] = LANDED
    /\ device_states[d].second_deploy_triggered
    /\ device_states[d].main_deploy_triggered

\* C6: the phase a call returns is LANDED for a board that had landed when
\* the call was made, and otherwise is decided by flight_time (half seconds
\* here): GROUND below 0, RISING below 10 s, COASTING below 30 s, MAIN
\* DEPLOY below 35 s, MAIN DEPLOY or SECOND DEPLOY from 35 s on.
C6_PhaseTable ==
  last_gen.called =>
    LET ft == last_gen.flight_time
        ph == last_gen.phase
    IN  IF last_gen.landed_before THEN ph = LANDED
        ELSE IF ft < 0 THEN ph = GROUND
        ELSE IF ft < 20 THEN ph = RISING
        ELSE IF ft < 60 THEN ph = COASTING
        ELSE IF ft < 70 THEN ph = MAIN_DEPLOY
        ELSE ph \in {MAIN_DEPLOY, SECOND_DEPLOY}

\* a descent tick of a board that has not landed reports SECOND DEPLOY
C6_Witness ==
  /\ last_gen.called
  /\ ~last_gen.landed_before
  /\ last_gen.flight_time >= 70
  /\ last_gen.phase = SECOND_DEPLOY

\* the step is one call of generate_rocket_flight_data for device d
GenerateStep(d) == dev_i = d /\ dev_i' = d + 1

\* C19: has_landed is set for a board only in a descent tick with
\* flight_time - 35 s > 10 s (half seconds here: flight_time - 70 > 20) and
\* model altitude at most the base altitude + 10 m (400 fortieths); that
\* tick still reports MAIN DEPLOY or SECOND DEPLOY and records the elapsed
\* time as landing_time; once has_landed is set it and landing_time never
\* change, and every later call with flight_time >= 0 reports LANDED.
C19_LandingOnce ==
  [][\A d \in Devices :
       LET before == device_states[d]
           after  == device_states'[d]
       IN  /\ (~before.has_landed /\ after.has_landed) =>
                /\ GenerateStep(d)
                /\ last_gen'.flight_time - 70 > 20
                /\ last_gen'.alt <= before.alt + 400
                /\ last_gen'.phase \in {MAIN_DEPLOY, SECOND_DEPLOY}
                /\ after.landing_time = last_gen'.elapsed_time
           /\ before.has_landed =>
                /\ after.has_landed
                /\ after.landing_time = before.landing_time
                /\ (GenerateStep(d) /\ last_gen'.flight_time >= 0) =>
                     last_gen'.phase = LANDED]_vars

\* a call made for a board that had landed earlier, on a later tick
C19_Witness ==
  \E d \in Devices :
    /\ last_gen.called /\ last_gen.dev = d
    /\ last_gen.landed_before
    /\ last_gen.phase = LANDED
    /\ device_states[d].landing_time # NoneTime
    /\ last_gen.elapsed_time > device_states[d].landing_time

\* C20: second_deploy_triggered is a one-shot trigger: it is set in the
\* first descent tick (flight_time >= 35 s, not landed) whose model altitude
\* is at most 150 m (6000 fortieths), every such tick leaves it set, it is
\* never cleared, and every reading of a board whose trigger is set and
\* that has not landed is SECOND DEPLOY.
C20_SecondDeployOneShot ==
  [][\A d \in Devices :
       LET before == device_states[d]
           after  == device_states'[d]
       IN  /\ before.second_deploy_triggered => after.second_deploy_triggered
           /\ (~before.second_deploy_triggered
                 /\ after.second_deploy_triggered) =>
                /\ GenerateStep(d)
                /\ ~before.has_landed
                /\ last_gen'.flight_time >= 70
                /\ last_gen'.alt <= 6000
                /\ last_gen'.phase = SECOND_DEPLOY
           /\ (GenerateStep(d) /\ ~before.has_landed
                 /\ last_gen'.flight_time >= 70 /\ last_gen'.alt <= 6000) =>
                after.second_deploy_triggered
           /\ (GenerateStep(d) /\ before.second_deploy_triggered
                 /\ ~before.has_landed) =>
                last_gen'.phase = SECOND_DEPLOY]_vars

\* a reading taken after the trigger tick and before landing, still above
\* the landing margin
C20_Witness ==
  \E d \in Devices :
    /\ last_gen.called /\ last_gen.dev = d
    /\ ~last_gen.landed_before
    /\ ~device_states[d].has_landed
    /\ device_states[d].second_deploy_triggered
    /\ last_gen.phase = SECOND_DEPLOY
    /\ last_gen.alt < 6000 - 1000
    /\ last_gen.alt > device_states[d].alt + 400


(***************************************************************************)
(* Claims on the generated reading (SpecReading)                           *)
(***************************************************************************)

\* C11: every reading generate_rocket_flight_data returns has humidity in
\* [0, 100], lat in [-90, 90], lon in [-180, 180) and altitude >= 0
\* (millionths of a degree and of a percent, fortieths of a metre).
C11_ReadingRanges ==
  gen_calls > 0 =>
    /\ 0 <= gen_reading.humidity /\ gen_reading.humidity <= 100 * Micro
    /\ -90 * Micro <= gen_reading.lat /\ gen_reading.lat <= 90 * Micro
    /\ -180 * Micro <= gen_reading.lon /\ gen_reading.lon < 180 * Micro
    /\ gen_reading.alt >= 0

\* a landed board whose position has drifted in flight and whose model
\* altitude, with the output noise, would be below zero
C11_Witness ==
  /\ gen_calls > 0
  /\ gen_reading.phase = LANDED
  /\ gen_reading.model_alt < 200
  /\ gen_reading.alt = 0
  /\ gen_reading.lon # 90 * Micro

(***************************************************************************)
(* Claims on the codec (SpecCodec)                                         *)
(***************************************************************************)

\* numeric fields already rounded to the codec precision: two decimals
\* (lat and lon, six decimals, are on the model's grid by construction)
Rounded(r) ==
  \A v \in {r.accel_x, r.accel_y, r.accel_z, r.temp, r.pressure,
            r.humidity, r.alt} : v % 10000 = 0

\* an upper-case token without commas (and without blanks around it)
IsToken(p) ==
  /\ Len(p) > 0
  /\ upper(p) = p
  /\ strip(p) = p
  /\ \A i \in 1..Len(p) : p[i] # ","

\* C9: round trip between create_csv_data (10 fields) and parse_csv_string
\* of unifiedDashboard.py: a reading with rounded numeric fields and an
\* upper-case comma-free phase token is decoded exactly, field by field.
C9_RoundTrip ==
  (codec_pc = "decoded" /\ Rounded(codec_in) /\ IsToken(codec_in.phase)) =>
    /\ codec_out.ok
    /\ codec_out.data = codec_in

\* a rounded MAIN DEPLOY reading (negative latitude) went round the codec
C9_Witness ==
  /\ codec_pc = "decoded"
  /\ Rounded(codec_in)
  /\ codec_in.phase = MAIN_DEPLOY
  /\ codec_in.lat < 0
  /\ codec_out.ok
  /\ codec_out.data.phase = MAIN_DEPLOY

(***************************************************************************)
(* Claims on the dashboards (Spec)                                         *)
(***************************************************************************)

\* the fields of a line, as every parser splits it
Fields(l) == split(strip(l))

NumFields(l) == Len(Fields(l))

\* the first field equals accel_x, case-insensitively
IsHeaderLine(l) == lower(Fields(l)[1]) = accel_x

\* the fetcher is between two lines: it is not ingesting the line read last
BetweenLines == f_pc \in {"read", "line", "poll", "publish"}

\* flag f of every entry of dict d is still set in dict e
Sticky(d, e, f) ==
  \A b \in DOMAIN d : d[b][f] => (b \in DOMAIN e /\ e[b][f])

\* the same, for the entries that e still holds
StickyIfKept(d, e, f) ==
  \A b \in (DOMAIN d) \cap (DOMAIN e) : d[b][f] => e[b][f]

\* C1: a deploy flag that is true stays true in every later state, for
\* every board: the flags of the board store (unifiedDashboard.py,
\* groundDashboard.py), those of deployment_history (unifiedDashboard.py,
\* deployDashboard.py) and those shown in deployDashboard's board_statuses.
C1_FlagsMonotone ==
  [][/\ Sticky(board_list, board_list', "main_deploy")
     /\ Sticky(board_list, board_list', "second_deploy")
     /\ Sticky(deployment_history, deployment_history', "main_deployed")
     /\ Sticky(deployment_history, deployment_history', "second_deployed")
     /\ StickyIfKept(board_statuses, board_statuses', "main_deployed")
     /\ StickyIfKept(board_statuses, board_statuses', "second_deployed")
    ]_vars

\* a board whose MAIN DEPLOY reading was followed by a RISING reading
C1_Witness ==
  \E b \in DOMAIN board_list :
    LET r == board_list[b]
    IN  /\ r.main_deploy
        /\ Len(r.phase) >= 2
        /\ r.phase[Len(r.phase) - 1] = DESCENT
        /\ Last(r.phase) = RISING

\* C2: update_board_data classifies the upper-cased phase of the reading:
\* with MAIN and DEPLOY the main flag is set and DESCENT is stored; else with
\* SECOND and DEPLOY the second flag is set and DESCENT is stored; otherwise
\* the (upper-cased) phase itself is stored and no flag changes.  A later
\* get_board_status returns the board's flags and that stored phase.
C2_Classification ==
  [][/\ (prog = "unified" /\ f_pc = "flags" /\ f_pc' = "numeric") =>
          LET raw      == upper(parsed.data.phase)
              isMain   == Contains(MAIN, raw) /\ Contains(DEPLOY, raw)
              isSecond == Contains(SECOND, raw) /\ Contains(DEPLOY, raw)
              b        == board_list[board_id]
              c        == board_list'[board_id]
          IN  IF isMain
                THEN /\ c.main_deploy
                     /\ deployment_history'[board_id].main_deployed
                     /\ display_phase' = DESCENT
                     /\ c.second_deploy = b.second_deploy
              ELSE IF isSecond
                THEN /\ c.second_deploy
                     /\ deployment_history'[board_id].second_deployed
                     /\ display_phase' = DESCENT
                     /\ c.main_deploy = b.main_deploy
              ELSE /\ display_phase' = raw
                   /\ c.main_deploy = b.main_deploy
                   /\ c.second_deploy = b.second_deploy
                   /\ deployment_history' = deployment_history
     /\ (prog = "unified" /\ f_pc = "phase" /\ f_pc' = "read") =>
          Last(board_list'[board_id].phase) = display_phase
     /\ (prog = "unified" /\ ~view.seen /\ view'.seen
           /\ view'.card \in {"charts", "status"}) =>
          LET b == board_list[view'.board]
          IN  /\ view'.status.phase = Last(b.phase)
              /\ view'.status.main_deployed = b.main_deploy
              /\ view'.status.second_deployed = b.second_deploy
    ]_vars

\* a snapshot, after a lower-case "second deploy" reading: DESCENT with the
\* second flag and without the main flag
C2_Witness ==
  /\ prog = "unified"
  /\ view.seen
  /\ view.status.phase = DESCENT
  /\ view.status.second_deployed
  /\ ~view.status.main_deployed

\* the raw phases the stored state of board b is compatible with: the
\* stored phase itself, or for DESCENT the deploy phases whose flag is set
RawPhasesReadable(b) ==
  IF Last(b.phase) # DESCENT THEN {Last(b.phase)}
  ELSE {p \in {MAIN_DEPLOY, SECOND_DEPLOY} :
          \/ p = MAIN_DEPLOY /\ b.main_deploy
          \/ p = SECOND_DEPLOY /\ b.second_deploy}

\* C3: once a MAIN DEPLOY or SECOND DEPLOY reading has been ingested, the
\* board's stored state gives back its display phase, DESCENT, and its raw
\* phase.
C3_RawAndDisplayReadable ==
  (/\ prog = "unified"
   /\ f_pc = "read"
   /\ parsed.ok
   /\ upper(parsed.data.phase) \in {MAIN_DEPLOY, SECOND_DEPLOY}) =>
    LET b == board_list[board_id]
    IN  /\ Last(b.phase) = DESCENT
        /\ RawPhasesReadable(b) = {upper(parsed.data.phase)}

\* C4: whatever a callback reads while the fetcher is ingesting, the series
\* of a board have one length, and a stored DESCENT comes with a deploy flag.
C4_NoTornRead ==
  view.seen =>
    /\ Cardinality(view.lens) <= 1
    /\ (view.status.phase = DESCENT =>
          (view.status.main_deployed \/ view.status.second_deployed))

\* C7: a line that is no header and has 9 or 11 fields is not decoded, and
\* the fetcher goes on to the next line without ingesting it.
C7_WrongArityFails ==
  (/\ prog \in {"unified", "deploy"}
   /\ msg_count > 0
   /\ ~IsHeaderLine(line)
   /\ NumFields(line) \in {9, 11}) =>
    (~parsed.ok /\ BetweenLines)

\* C8: a line whose first field is accel_x in any case is skipped, whatever
\* follows the first field: the parser returns None without reporting an
\* error, the fetcher goes on to the next line, and reading the line changes
\* no board.
C8_HeaderSkipped ==
  /\ []((/\ prog \in {"unified", "ground"}
         /\ msg_count > 0
         /\ IsHeaderLine(line)) =>
          (~parsed.ok /\ parsed.printed = "" /\ BetweenLines))
  /\ [][(/\ prog \in {"unified", "ground"}
         /\ msg_count' # msg_count
         /\ IsHeaderLine(line')) => UNCHANGED storeVars]_vars

\* groundDashboard.py was given a header token followed by ten valid fields
C8_Witness ==
  /\ prog = "ground"
  /\ msg_count > 0
  /\ line = G_header_num
  /\ ~parsed.ok
  /\ NumFields(line) = 11

\* a line that is no header and has not n fields, or has a field among the
\* first n - 1 that is no number
Malformed(l, n) ==
  /\ ~IsHeaderLine(l)
  /\ \/ NumFields(l) # n
     \/ \E i \in 1..(n - 1) : ~pyfloat(Fields(l)[i]).ok

\* C10: a malformed line is dropped: it is not decoded and the fetcher goes
\* on to the next line without touching a board.
C10_MalformedDropped ==
  (/\ msg_count > 0
   /\ \/ prog = "unified" /\ Malformed(line, 10)
      \/ prog = "ground" /\ Malformed(line, 11)) =>
    (~parsed.ok /\ BetweenLines)

\* C12: every longitude stored in a board's history lies in [-180, 180)
\* (millionths of a degree), also when the decoded line carried a longitude
\* outside that range.
C12_StoredLonInRange ==
  \A b \in DOMAIN board_list :
    \A i \in 1..Len(board_list[b].lon) :
      /\ -180 * Micro <= board_list[b].lon[i]
      /\ board_list[b].lon[i] < 180 * Micro

\* C16: after any sequence of ingests each series of each board's history
\* holds at most MAX_DATA_POINTS entries.
C16_HistoryCapped ==
  \A b \in DOMAIN board_list :
    \A n \in SeriesLens(board_list[b]) : n <= MAX_DATA_POINTS

\* C17: a board id is never removed: once it is present in the board map
\* (board_list), in the deployment history or in the status map
\* (board_statuses) it is present after every later step, whatever lines
\* arrive.
C17_BoardNeverRemoved ==
  [][/\ DOMAIN board_list \subseteq DOMAIN board_list'
     /\ DOMAIN deployment_history \subseteq DOMAIN deployment_history'
     /\ DOMAIN board_statuses \subseteq DOMAIN board_statuses']_vars

FMax(x, y) == IF FLeq(x, y) THEN y ELSE x

\* 15 * (1 / (1 + ratio^2)), ratio = (max_altitude - predicted) / predicted
FormulaApogee(max_altitude, predicted) ==
  LET ratio == FDiv(FSub(Whole(max_altitude), Whole(predicted)),
                    Whole(predicted))
  IN  FMul(Whole(15), FDiv(Whole(1), FAdd(Whole(1), FMul(ratio, ratio))))

\* 7.5 * max(0, 1 - distance / 500)
FormulaDistance(distance) ==
  FMul(Frac(15, 2),
       FMax(Whole(0), FSub(Whole(1), FDiv(distance, Whole(500)))))

\* the distance a row shows, in metres
ShownDistance(row) == Frac(pyfloat(row.distance).val, Micro)

Text_0_0 == <<"0", ".", "0">>

Text_500_0 == <<"5", "0", "0", ".", "0">>

Text_600_0 == <<"6", "0", "0", ".", "0">>

\* C13: for a board with a saved positive prediction the score a status row
\* shows is apogee_score + distance_score, with apogee_score =
\* 15 / (1 + ratio^2), ratio = (max_altitude - predicted) / predicted, and
\* distance_score = 7.5 * max(0, 1 - distance / 500), written with two
\* decimals; the sum lies in [0, 22.5]; apogee_score is 15 for max_altitude
\* = predicted = 1000 and 12 for max_altitude = 1500; distance_score is
\* 7.5, 0 and 0 for distances 0, 500 and 600.
C13_ScoreFormula ==
  \A bid \in DOMAIN status_rows :
    LET row   == status_rows[bid]
        m     == row.max_alt
        pr    == row.prediction
        total == FAdd(FormulaApogee(m, pr),
                      FormulaDistance(ShownDistance(row)))
        text(n, d) == score_text(Frac(n, d))
    IN  pr > 0 =>
          /\ row.score = score_text(total)
          /\ FLeq(Whole(0), total) /\ FLeq(total, Frac(45, 2))
          /\ (m = 1000 * Micro /\ pr = 1000 * Micro) =>
               /\ row.distance = Text_0_0 => row.score = text(45, 2)
               /\ row.distance = Text_500_0 => row.score = text(15, 1)
               /\ row.distance = Text_600_0 => row.score = text(15, 1)
          /\ (m = 1500 * Micro /\ pr = 1000 * Micro) =>
               /\ row.distance = Text_0_0 => row.score = text(39, 2)
               /\ row.distance = Text_500_0 => row.score = text(12, 1)
               /\ row.distance = Text_600_0 => row.score = text(12, 1)

\* a board predicted at 1000 m that peaked at 1500 m and came down 600 m
\* away: 12.00
C13_Witness ==
  \E bid \in DOMAIN status_rows :
    /\ status_rows[bid].prediction = 1000 * Micro
    /\ status_rows[bid].max_alt = 1500 * Micro
    /\ status_rows[bid].distance = Text_600_0
    /\ status_rows[bid].score = <<"1", "2", ".", "0", "0">> \o of_22_5

\* C14: the score of a board is reported as not available, never as a
\* number, when no prediction is saved for the board or when the board has
\* fewer than 2 position samples.
C14_ScoreNotAvailable ==
  \A bid \in DOMAIN status_rows :
    LET row == status_rows[bid]
    IN  (row.prediction = 0 \/ row.positions < 2) => ~IsDigit(row.score[1])

\* C15: after an explicit save (the button has been clicked) of a positive
\* value for a board, the stored prediction of that board is the value,
\* whatever was stored before, and the stored predictions of all other
\* boards are unchanged.
C15_SaveOverwrites ==
  [][(/\ pred_call'.called
      /\ pred_call' # pred_call \/ prediction_memory' # prediction_memory
      /\ pred_call'.n_clicks > 0
      /\ pred_call'.predicted_apogee > 0
      /\ pred_call'.board_id # NoSelection) =>
       LET id == pred_call'.board_id
       IN  /\ id \in DOMAIN prediction_memory'
           /\ prediction_memory'[id] = pred_call'.predicted_apogee
           /\ DOMAIN prediction_memory' = DOMAIN prediction_memory \cup {id}
           /\ \A other \in DOMAIN prediction_memory \ {id} :
                prediction_memory'[other] = prediction_memory[other]]_vars

\* 500 m saved over a stored 1000 m, another board's 1000 m kept
C15_Witness ==
  /\ pred_call.called
  /\ pred_call.n_clicks > 0
  /\ pred_call.board_id = str(0)
  /\ pred_call.previous = 1000 * Micro
  /\ pred_call.predicted_apogee = 500 * Micro
  /\ DOMAIN prediction_memory = {str(0), str(1)}
  /\ prediction_memory[str(0)] = 500 * Micro
  /\ prediction_memory[str(1)] = 1000 * Micro

(***************************************************************************)
(* Further claims on the flight simulator (SpecSim, SpecHalf)              *)
(***************************************************************************)

\* C29: for any non-decreasing sequence of elapsed times, a board that has
\* landed has its second_deploy_triggered set, and a LANDED reading of a
\* board comes only after a SECOND DEPLOY reading of it: the reading before
\* a LANDED one is SECOND DEPLOY or LANDED.
C29_LandedAfterSecondDeploy ==
  [][\A d \in Devices :
       /\ device_states'[d].has_landed =>
            device_states'[d].second_deploy_triggered
       /\ device_data'[d] = LANDED =>
            device_data[d] \in {SECOND_DEPLOY, LANDED}]_vars

\* a board from the highest launch site that was first seen in descent at
\* its landing altitude, now landed
C29_Witness ==
  \E d \in Devices :
    /\ device_states[d].has_landed
    /\ device_states[d].alt = 2000
    /\ ~device_states[d].main_deploy_triggered
    /\ device_data[d] = LANDED

\* C28: when generate is called every 0.5 s, every board eventually has
\* has_landed set and from then on reports LANDED on every call.
C28_EventuallyLanded ==
  \A d \in Devices :
    <>[](device_states[d].has_landed /\ device_data[d] = LANDED)

\* a board that went through every phase in 0.5 s ticks and reports LANDED
C28_Witness ==
  \E d \in Devices :
    /\ device_states[d].has_landed
    /\ device_states[d].has_launched
    /\ device_states[d].landing_time # NoneTime
    /\ elapsed > device_states[d].landing_time
    /\ last_gen.called /\ last_gen.dev = d /\ last_gen.phase = LANDED

(***************************************************************************)
(* Further claims on the aggregator (Spec)                                 *)
(***************************************************************************)

\* C21: every access to the shared store is made under the store's lock, so
\* the prediction map is never written while a reader holds the lock: a
\* step that changes prediction_memory is taken only when no callback is
\* reading under the lock
C21_WritesUnderLock ==
  [][prediction_memory' # prediction_memory => lock # "reader"]_vars

\* C22: a board's prediction record is created or changed only by a click on
\* Save Prediction: a callback fired by an edit of the predicted apogee or by
\* a change of the selected board leaves prediction_memory as it was
C22_OnlyClickSaves ==
  [][prediction_memory' # prediction_memory => triggered' = "n_clicks"]_vars

(***************************************************************************)
(* Further claims on the codec (SpecCodec)                                 *)
(***************************************************************************)

\* C26: each 10-field decoder (unifiedDashboard.py, deployDashboard.py,
\* deploymentDashboard.py) returns a reading for every canonical 10-field
\* line of nine numeric fields and a phase token, with humidity from field
\* 8, altitude from field 9 and phase from field 10
C26_TenFieldDecoded ==
  (/\ codec_pc \in {"decoded", "decoded_deploy", "decoded_deployment"}
   /\ Rounded(codec_in)
   /\ IsToken(codec_in.phase)) =>
    /\ codec_out.ok
    /\ codec_out.data.humidity = codec_in.humidity
    /\ codec_out.data.alt = codec_in.alt
    /\ codec_out.data.phase = codec_in.phase

(***************************************************************************)
(* Claims on the counter-based adapters (SpecAdapters)                     *)
(***************************************************************************)

IsHeader(csv_string) == lower(split(strip(csv_string))[1]) = accel_x

\* how many of the source's lines were lost or rejected
src_dropped == src_lost + src_rejected

\* C23 as stated: in every adapter that infers the board from a counter,
\* each lost and each rejected line sets the counter one back against the
\* source, for every later line: the counter equals the number of lines
\* emitted minus the lines lost or rejected, modulo the board count
C23_DropShifts ==
  /\ (prog = "unified" /\ f_pc = "read") =>
       board_round_robin = (src_sent - src_dropped) % NumBoards
  /\ (prog = "deployment" /\ f_pc = "listen") =>
       message_count % NumBoards = (src_sent - src_dropped) % NumBoards

\* C23 amended: the serial fetcher of unifiedDashboard.py advances its
\* counter on accepted lines only, so each lost and each rejected line
\* shifts the board of every later line by one; the listener of
\* deploymentDashboard.py counts rejected messages too, so only a lost line
\* sets its counter back
C23_DropShiftsAmended ==
  /\ (prog = "unified" /\ f_pc = "read") =>
       board_round_robin = (src_sent - src_dropped) % NumBoards
  /\ (prog = "unified" /\ f_pc = "lock") =>
       board_id = src_board(src_sent - 1 - src_dropped)
  /\ (prog = "deployment" /\ f_pc = "listen") =>
       message_count = src_sent - src_lost

\* after one dropped line, the source's third line (of board 0) is stored
\* for the next board
C23_Witness ==
  /\ prog = "unified"
  /\ f_pc = "lock"
  /\ src_dropped = 1
  /\ src_sent = 3
  /\ board_id # src_board(src_sent - 1)
  /\ board_id = str(1)

\* C24: when nothing is lost or rejected, a line is stored for the board
\* that produced it: in the serial fetcher every accepted line, in the
\* WebSocket listener the first message of a connection, a well-formed
\* canonical line of board 0
C24_AttributedToProducer ==
  /\ (prog = "unified" /\ f_pc = "lock" /\ src_dropped = 0) =>
       board_id = src_board(src_sent - 1)
  /\ (/\ prog = "deployment"
      /\ f_pc = "listen"
      /\ message_count = 1
      /\ src_lost = 0
      /\ line \in {L_rising, L_main}) =>
       /\ parsed.ok
       /\ board_id = src_board(0)
       /\ src_board(0) \in DOMAIN board_statuses

\* C25: a header line is skipped silently: it neither raises the error
\* count nor prints an invalid-line message, whereas a malformed line raises
\* the count and prints
C25_HeaderSilent ==
  [][(prog = "ground_serial" /\ msg_count' = msg_count + 1) =>
       IF IsHeader(line')
         THEN /\ error_count' = error_count
              /\ skip_log' = ""
              /\ parsed'.printed = ""
         ELSE ~parsed'.ok =>
                /\ error_count' = error_count + 1
                /\ skip_log' = Skipping_invalid_line]_vars

(***************************************************************************)
(* Claim on the REST server (SpecApi)                                      *)
(***************************************************************************)

\* C27: every response of GET /gcs/all is a consistent snapshot: it holds
\* no board at all, or one line for each of the N boards, all of them
\* generated in the same generator tick
C27_ConsistentSnapshot ==
  response.sent =>
    \/ response.body = <<>>
    \/ /\ DOMAIN response.body = BoardIds
       /\ \A a, b \in BoardIds : response.body[a] = response.body[b]

\* a response with the lines of the second tick, sent while the generator
\* sleeps before a later tick
C27_Witness ==
  /\ response.sent
  /\ DOMAIN response.body = BoardIds
  /\ \A b \in BoardIds : response.body[b] = 1
  /\ counter > 2

=============================================================================
